---- MODULE Spec2Model ----
(***************************************************************************)
(* State-machine model of the DTV desktop backend (src-tauri):             *)
(*   - the Douyu danmaku listener registry (main.rs),                       *)
(*   - the shared stream URL store (main.rs),                               *)
(*   - the primary and the static local proxy servers (proxy.rs),          *)
(*   - the /live.flv, /image and /hls routes they serve, with the HLS      *)
(*     playlist rewriting computed character by character (proxy.rs).      *)
(* Tauri runs every async command on a multi-threaded runtime, so two      *)
(* commands may interleave wherever one of them is not holding a mutex.    *)
(* Each action below is one such atomic step of one command.               *)
(***************************************************************************)
EXTENDS Integers, FiniteSets, Sequences, TLC

\* ------------------------------------------------------------------ bounds
\* Oneshot channels (listener registrations) created in one run.
MaxChan == 3
\* Proxy server instances (primary or static) bound in one run.
MaxSrv == 3

\* ---------------------------------------------------------- fixed universes
\* Command invocations that can be in flight at the same time.
Procs == {"p1", "p2"}
\* Room ids passed to the listener commands.
Rooms == {"room-42", "room-7"}
\* Values a caller passes to set_stream_url_cmd.
Urls == {"", "https://cdn.example.com/live/stream.flv"}
Chans == 1..MaxChan
Srvs == 1..MaxSrv

\* Port of the primary proxy (find_free_port) and of the static proxy.
PrimaryPort == 34719
StaticPort == 34721
Ports == {PrimaryPort, StaticPort}

VARIABLES
    danmaku_handles,      \* DouyuDanmakuHandles: set of <<room_id, channel>> entries
    nchan,                \* number of oneshot channels created so far
    channels,             \* channel -> [room, fate of the Sender, command that sent on it, task owning the Receiver]
    url,                  \* StreamUrlStore.url
    server_handle_state,  \* ProxyServerHandle: 0 (None) or the server whose handle is stored
    nsrv,                 \* number of servers bound so far
    servers,              \* server -> [port, state, spawned, stop]
    portEnv,              \* port -> what the rest of the machine does with it
    staticOk,             \* a static start has succeeded and the static port's surroundings did not change since
    proc                  \* invocation -> its command, position, locals and result

listenerVars == <<danmaku_handles, nchan, channels>>
relayVars == <<url, server_handle_state, nsrv, servers, portEnv, staticOk>>
vars == <<danmaku_handles, nchan, channels, url, server_handle_state, nsrv, servers,
          portEnv, staticOk, proc>>

\* ----------------------------------------------------------------- values
Ok(v) == <<"Ok", v>>
Err(e) == <<"Err", e>>
IsOk(res) == res # <<>> /\ res[1] = "Ok"
IsErr(res) == res # <<>> /\ res[1] = "Err"

NoChannel == [room |-> "", fate |-> "none", by |-> "", task |-> "none"]
NoServer == [port |-> 0, state |-> "unborn", spawned |-> FALSE, stop |-> "none"]
Idle == [op |-> "none", pc |-> "idle", room |-> "", chan |-> 0, taken |-> 0, srv |-> 0,
         found |-> 0, query |-> <<>>, url |-> "", fetched |-> <<>>, upstream |-> <<>>,
         headers |-> {}, res |-> <<>>]

Init ==
    /\ danmaku_handles = {}
    /\ nchan = 0
    /\ channels = [c \in Chans |-> NoChannel]
    /\ url = ""
    /\ server_handle_state = 0
    /\ nsrv = 0
    /\ servers = [s \in Srvs |-> NoServer]
    /\ portEnv = [pt \in Ports |-> "free"]
    /\ staticOk = FALSE
    /\ proc = [p \in Procs |-> Idle]

\* A command returns to its caller; the invocation slot is free again.
Return(p) ==
    /\ proc[p].pc = "done"
    /\ proc' = [proc EXCEPT ![p] = Idle]
    /\ UNCHANGED <<listenerVars, relayVars>>

\* ------------------------------------------------------------------- locks
\* The three std::sync::Mutex of the managed state.
Mutexes == {"StreamUrlStore.url", "ProxyServerHandle", "DouyuDanmakuHandles"}

HoldingAcrossAwait(p) == IF proc[p].pc = "await" THEN {"ProxyServerHandle"} ELSE {}
\* The mutexes whose guard is alive while invocation p stands between two of
\* its steps. Every lock() is a temporary of one statement, or of a block that
\* is closed before the next step (`{ ...lock().unwrap().take() }`), or of an
\* `if let` whose body sends and does not await: no guard outlives its step.
Holding(p) == {}
\* lock() returns once no other invocation holds the mutex.
Free(m) == \A q \in Procs : m \notin Holding(q)

\* ====================================================== listener registry

LookupAnyRoom(map, r) == {e[2] : e \in map}
\* HashMap::get: the channels registered under room id r.
Lookup(map, r) == {e[2] : e \in {x \in map : x[1] = r}}

RemoveNothing(map, r) == map
\* HashMap::remove(&room_id).
Remove(map, r) == {e \in map : e[1] # r}

InsertKeepsOld(map, r, c) == map \cup {<<r, c>>}
\* HashMap::insert(room_id, stop_tx): the entry for the key is replaced.
Insert(map, r, c) == Remove(map, r) \cup {<<r, c>>}

\* The Receiver of channel c still exists: it is held by the command that made
\* the channel until the task is spawned, then by the task until the task ends.
ReceiverAlive(c) == channels[c].task \in {"none", "running"}

SendAlwaysOk(c) == "sent_ok"
\* oneshot::Sender::send(()): Err when the Receiver was dropped.
Send(c) == IF ReceiverAlive(c) THEN "sent_ok" ELSE "sent_err"

SupersedeDrops(c) == "dropped"
\* What start_danmaku_listener does with the sender it removed: `let _ = existing_sender.send(())`.
Supersede(c) == Send(c)

StopResultNeverErr(r, fate) == Ok("unit")
\* stop_danmaku_listener's result for a removed sender whose send ended in `fate`.
StopResult(r, fate) ==
    IF fate = "sent_ok" THEN Ok("unit")
    ELSE Err(<<"Failed to stop Douyu danmaku listener for room ", r, ": receiver dropped.">>)

\* Channels made so far plus those the starts in flight are about to make (the run's cap).
ChannelsClaimed == nchan + Cardinality({q \in Procs : proc[q].pc = "insert"})

\* start_danmaku_listener, first critical section: remove the room's sender and signal it.
StartRemove(p, r) ==
    /\ proc[p].pc = "idle"
    /\ Free("DouyuDanmakuHandles")
    /\ ChannelsClaimed < MaxChan
    /\ LET ex == Lookup(danmaku_handles, r) IN
        /\ danmaku_handles' = Remove(danmaku_handles, r)
        /\ channels' = [c \in Chans |->
                          IF c \in ex THEN [channels[c] EXCEPT !.fate = Supersede(c), !.by = "start"]
                          ELSE channels[c]]
    /\ proc' = [proc EXCEPT ![p] =
                  [Idle EXCEPT !.op = "start_danmaku_listener", !.pc = "insert", !.room = r]]
    /\ UNCHANGED <<nchan, relayVars>>

\* start_danmaku_listener, second critical section: make the channel and store its sender.
\* A sender that insert() finds under the key is returned and dropped unsent.
StartInsert(p) ==
    /\ proc[p].pc = "insert"
    /\ Free("DouyuDanmakuHandles")
    /\ LET r == proc[p].room
           c == nchan + 1
           old == Lookup(danmaku_handles, r) IN
        /\ nchan' = c
        /\ danmaku_handles' = Insert(danmaku_handles, r, c)
        /\ channels' = [d \in Chans |->
                          IF d = c THEN [room |-> r, fate |-> "held", by |-> "", task |-> "none"]
                          ELSE IF d \in old /\ <<r, d>> \notin Insert(danmaku_handles, r, c)
                               THEN [channels[d] EXCEPT !.fate = "dropped"]
                          ELSE channels[d]]
        /\ proc' = [proc EXCEPT ![p].pc = "spawn", ![p].chan = c]
    /\ UNCHANGED relayVars

\* start_danmaku_listener: tokio::spawn of the DanmakuClient owning stop_rx, then Ok(()).
StartSpawn(p) ==
    /\ proc[p].pc = "spawn"
    /\ channels' = [channels EXCEPT ![proc[p].chan].task = "running"]
    /\ proc' = [proc EXCEPT ![p].pc = "done", ![p].res = Ok("unit")]
    /\ UNCHANGED <<danmaku_handles, nchan, relayVars>>

\* stop_danmaku_listener: one critical section (the guard lives to the end of the if-let).
StopListener(p, r) ==
    /\ proc[p].pc = "idle"
    /\ Free("DouyuDanmakuHandles")
    /\ LET ex == Lookup(danmaku_handles, r) IN
        /\ danmaku_handles' = Remove(danmaku_handles, r)
        /\ channels' = [c \in Chans |->
                          IF c \in ex THEN [channels[c] EXCEPT !.fate = Send(c), !.by = "stop"]
                          ELSE channels[c]]
        /\ proc' = [proc EXCEPT ![p] =
                      [Idle EXCEPT !.op = "stop_danmaku_listener", !.pc = "done", !.room = r,
                                   !.res = IF ex = {} THEN Ok("unit")
                                           ELSE StopResult(r, Send(CHOOSE c \in ex : TRUE))]]
    /\ UNCHANGED <<nchan, relayVars>>

\* The spawned client sees its stop signal and ends.
ListenerCancelled(c) ==
    /\ channels[c].task = "running"
    /\ channels[c].fate = "sent_ok"
    /\ channels' = [channels EXCEPT ![c].task = "cancelled"]
    /\ UNCHANGED <<danmaku_handles, nchan, relayVars, proc>>

task_end_unregisters(map, c) == {e \in map : e[2] # c}
\* The spawned task owns the receiver, the room id and the window: when it
\* ends, the registry keeps the sender it holds for the room.
task_end(map, c) == map

\* client.start() returns on its own (connection error, room closed); the error is only logged.
ListenerExits(c) ==
    /\ channels[c].task = "running"
    /\ channels' = [channels EXCEPT ![c].task = "exited"]
    /\ danmaku_handles' = task_end(danmaku_handles, c)
    /\ UNCHANGED <<nchan, relayVars, proc>>

NoneInFlight == \A q \in Procs : proc[q].pc = "idle"

ListenerNext ==
    \/ \E p \in Procs, r \in Rooms : StartRemove(p, r)
    \/ \E p \in Procs : StartInsert(p)
    \/ \E p \in Procs : StartSpawn(p)
    \/ \E p \in Procs, r \in Rooms : StopListener(p, r)
    \/ \E c \in Chans : ListenerCancelled(c)
    \/ \E c \in Chans : ListenerExits(c)
    \/ \E p \in Procs : Return(p)

\* The same commands issued one after the other: each returns before the next is invoked.
ListenerSeqNext ==
    \/ \E p \in Procs, r \in Rooms : NoneInFlight /\ StartRemove(p, r)
    \/ \E p \in Procs : StartInsert(p)
    \/ \E p \in Procs : StartSpawn(p)
    \/ \E p \in Procs, r \in Rooms : NoneInFlight /\ StopListener(p, r)
    \/ \E c \in Chans : ListenerCancelled(c)
    \/ \E c \in Chans : ListenerExits(c)
    \/ \E p \in Procs : Return(p)

ListenerSpec == Init /\ [][ListenerNext]_vars
ListenerSeqSpec == Init /\ [][ListenerSeqNext]_vars

\* The listener commands under fair scheduling: a command in flight takes its
\* next step, and a running task that was signalled sees the signal. Nothing
\* makes a task end on its own, and nothing makes a caller issue a command.
ListenerFairSpec ==
    /\ Init
    /\ [][ListenerNext]_vars
    /\ \A p \in Procs : WF_vars(StartInsert(p)) /\ WF_vars(StartSpawn(p))
    /\ \A c \in Chans : WF_vars(ListenerCancelled(c))

\* ============================================================ stream url

\* set_stream_url_cmd: the stored url is replaced by the argument.
set_stream_url_cmd(p, u) ==
    /\ proc[p].pc = "idle"
    /\ Free("StreamUrlStore.url")
    /\ url' = u
    /\ proc' = [proc EXCEPT ![p] =
                  [Idle EXCEPT !.op = "set_stream_url_cmd", !.pc = "done", !.url = u,
                               !.res = Ok("unit")]]
    /\ UNCHANGED <<listenerVars, server_handle_state, nsrv, servers, portEnv, staticOk>>

\* ========================================================== proxy servers

\* What another program may be doing with a port: nothing, holding it bound,
\* holding it and accepting connections, or making bind fail for another reason
\* (reserved range, permissions).
PortStates == {"free", "bound", "listening", "fault"}

\* The servers of this process that hold port pt.
Running(pt) == {s \in Srvs : servers[s].state = "running" /\ servers[s].port = pt}

BindIgnoresOwnServers(pt) ==
    CASE portEnv[pt] = "free" -> "Ok"
      [] portEnv[pt] \in {"bound", "listening"} -> "AddrInUse"
      [] OTHER -> "Other"
\* HttpServer::bind(("127.0.0.1", port)): Ok, or the kind of the io::Error.
BindOutcome(pt) ==
    IF Running(pt) # {} THEN "AddrInUse"
    ELSE CASE portEnv[pt] = "free" -> "Ok"
           [] portEnv[pt] \in {"bound", "listening"} -> "AddrInUse"
           [] OTHER -> "Other"

ConnectNever(pt) == FALSE
\* TcpStream::connect(("127.0.0.1", port)).is_ok(): someone accepts on the port.
ConnectOk(pt) == Running(pt) # {} \/ portEnv[pt] = "listening"

\* format!("http://127.0.0.1:{}/live.flv", port) and format!("http://127.0.0.1:{}", port)
ProxyUrl(pt) == <<"http://127.0.0.1:", pt, "/live.flv">>
BaseUrl(pt) == <<"http://127.0.0.1:", pt>>

BindMessage(pt, kind) == <<"[Rust/proxy.rs] Failed to bind server to port ", pt, kind>>

PrimaryBindFallsBack(kind) ==
    IF kind = "AddrInUse" THEN Ok(ProxyUrl(PrimaryPort)) ELSE Err(BindMessage(PrimaryPort, kind))
\* start_proxy's answer to a failed bind: always the error.
PrimaryBindError(kind) == Err(BindMessage(PrimaryPort, kind))

StaticBindAlwaysErr(kind) == Err(BindMessage(StaticPort, kind))
\* start_static_proxy_server's answer to a failed bind: AddrInUse counts as running.
StaticBindError(kind) ==
    IF kind = "AddrInUse" THEN Ok(BaseUrl(StaticPort)) ELSE Err(BindMessage(StaticPort, kind))

StopGraceful == "graceful"
\* handle.stop(false): the shutdown asked of a taken handle is the immediate one.
StopArg == "immediate"

TakeLeaves(h) == h
\* Option::take(): what the slot holds after the take.
Take(h) == 0

SkipShutdown(h) == "bind"
\* start_proxy after the take: `if let Some(existing_handle) ... stop(false).await`.
AfterTake(h) == IF h # 0 THEN "await" ELSE "bind"

\* The servers table after stop(StopArg) was called on the handle of server h (0: no handle).
Stopping(h) == IF h = 0 THEN servers ELSE [servers EXCEPT ![h].stop = StopArg]

\* Servers bound so far plus those the starts in flight may still bind (the run's cap).
ServersClaimed ==
    nsrv + Cardinality({q \in Procs : proc[q].pc \in {"take", "await", "bind", "static_bind"}})

is_never_empty(u) == FALSE
\* start_proxy: `if current_stream_url.is_empty()`.
is_empty(u) == u = ""

\* start_proxy: read the stream url; an empty one ends the command.
StartProxyRead(p) ==
    /\ proc[p].pc = "idle"
    /\ Free("StreamUrlStore.url")
    /\ ServersClaimed < MaxSrv
    /\ proc' = [proc EXCEPT ![p] =
          IF is_empty(url)
          THEN [Idle EXCEPT !.op = "start_proxy", !.pc = "done", !.found = server_handle_state,
                            !.res = Err("Stream URL is not set in store. Cannot start proxy.")]
          ELSE [Idle EXCEPT !.op = "start_proxy", !.pc = "take", !.found = server_handle_state]]
    /\ UNCHANGED <<listenerVars, relayVars>>

\* start_proxy: take the stored handle and ask its server to stop.
StartProxyTake(p) ==
    /\ proc[p].pc = "take"
    /\ Free("ProxyServerHandle")
    /\ server_handle_state' = Take(server_handle_state)
    /\ servers' = IF AfterTake(server_handle_state) = "await"
                  THEN Stopping(server_handle_state) ELSE servers
    /\ proc' = [proc EXCEPT ![p].taken = server_handle_state,
                            ![p].pc = AfterTake(server_handle_state)]
    /\ UNCHANGED <<listenerVars, url, nsrv, portEnv, staticOk>>

\* start_proxy / stop_proxy: `.stop(false).await` returns once the server has stopped.
AwaitStopped(p) ==
    /\ proc[p].pc = "await"
    /\ servers[proc[p].taken].state = "stopped"
    /\ proc' = [proc EXCEPT ![p] =
          IF proc[p].op = "start_proxy" THEN [proc[p] EXCEPT !.pc = "bind"]
          ELSE [proc[p] EXCEPT !.pc = "done", !.res = Ok("unit")]]
    /\ UNCHANGED <<listenerVars, relayVars>>

\* start_proxy: HttpServer::new(..).bind(..)?.run().
StartProxyBind(p) ==
    /\ proc[p].pc = "bind"
    /\ LET kind == BindOutcome(PrimaryPort) IN
        IF kind = "Ok"
        THEN /\ nsrv' = nsrv + 1
             /\ servers' = [servers EXCEPT ![nsrv + 1] =
                              [port |-> PrimaryPort, state |-> "running",
                               spawned |-> FALSE, stop |-> "none"]]
             /\ proc' = [proc EXCEPT ![p].pc = "store", ![p].srv = nsrv + 1]
        ELSE /\ proc' = [proc EXCEPT ![p].pc = "done", ![p].res = PrimaryBindError(kind)]
             /\ UNCHANGED <<nsrv, servers>>
    /\ UNCHANGED <<listenerVars, url, server_handle_state, portEnv, staticOk>>

\* start_proxy: store the new server's handle.
StartProxyStore(p) ==
    /\ proc[p].pc = "store"
    /\ Free("ProxyServerHandle")
    /\ server_handle_state' = proc[p].srv
    /\ proc' = [proc EXCEPT ![p].pc = "spawn"]
    /\ UNCHANGED <<listenerVars, url, nsrv, servers, portEnv, staticOk>>

\* start_proxy: spawn the server future and return the proxy url.
StartProxySpawn(p) ==
    /\ proc[p].pc = "spawn"
    /\ servers' = [servers EXCEPT ![proc[p].srv].spawned = TRUE]
    /\ proc' = [proc EXCEPT ![p].pc = "done", ![p].res = Ok(ProxyUrl(PrimaryPort))]
    /\ UNCHANGED <<listenerVars, url, server_handle_state, nsrv, portEnv, staticOk>>

\* stop_proxy: take the stored handle; stop its server, or return at once when there is none.
StopProxyTake(p) ==
    /\ proc[p].pc = "idle"
    /\ Free("ProxyServerHandle")
    /\ server_handle_state' = Take(server_handle_state)
    /\ servers' = Stopping(server_handle_state)
    /\ proc' = [proc EXCEPT ![p] =
          IF server_handle_state # 0
          THEN [Idle EXCEPT !.op = "stop_proxy", !.pc = "await", !.taken = server_handle_state]
          ELSE [Idle EXCEPT !.op = "stop_proxy", !.pc = "done", !.res = Ok("unit")]]
    /\ UNCHANGED <<listenerVars, url, nsrv, portEnv, staticOk>>

\* The spawned server future handles the stop command: the server stops and frees its port.
ServerShutdown(s) ==
    /\ servers[s].state = "running"
    /\ servers[s].spawned
    /\ servers[s].stop # "none"
    /\ servers' = [servers EXCEPT ![s].state = "stopped"]
    /\ UNCHANGED <<listenerVars, url, server_handle_state, nsrv, portEnv, staticOk, proc>>

\* start_static_proxy_server: a successful connect means the server is already there.
StaticConnect(p) ==
    /\ proc[p].pc = "idle"
    /\ ServersClaimed < MaxSrv
    /\ IF ConnectOk(StaticPort)
       THEN /\ proc' = [proc EXCEPT ![p] =
                  [Idle EXCEPT !.op = "start_static_proxy_server", !.pc = "done",
                               !.res = Ok(BaseUrl(StaticPort))]]
            /\ staticOk' = TRUE
       ELSE /\ proc' = [proc EXCEPT ![p] =
                  [Idle EXCEPT !.op = "start_static_proxy_server", !.pc = "static_bind"]]
            /\ UNCHANGED staticOk
    /\ UNCHANGED <<listenerVars, url, server_handle_state, nsrv, servers, portEnv>>

\* start_static_proxy_server: bind and run, or classify the bind error.
StaticBind(p) ==
    /\ proc[p].pc = "static_bind"
    /\ LET kind == BindOutcome(StaticPort) IN
        IF kind = "Ok"
        THEN /\ nsrv' = nsrv + 1
             /\ servers' = [servers EXCEPT ![nsrv + 1] =
                              [port |-> StaticPort, state |-> "running",
                               spawned |-> FALSE, stop |-> "none"]]
             /\ proc' = [proc EXCEPT ![p].pc = "static_spawn", ![p].srv = nsrv + 1]
             /\ UNCHANGED staticOk
        ELSE /\ proc' = [proc EXCEPT ![p].pc = "done", ![p].res = StaticBindError(kind)]
             /\ staticOk' = (staticOk \/ IsOk(StaticBindError(kind)))
             /\ UNCHANGED <<nsrv, servers>>
    /\ UNCHANGED <<listenerVars, url, server_handle_state, portEnv>>

StaticStoresHandle(h, s) == s
\* "Do NOT overwrite the main proxy server handle": the slot holding h stays as it
\* was when the static server s is spawned.
StaticHandleSlot(h, s) == h

\* start_static_proxy_server: spawn the server future (its handle is kept nowhere) and return.
StaticSpawn(p) ==
    /\ proc[p].pc = "static_spawn"
    /\ servers' = [servers EXCEPT ![proc[p].srv].spawned = TRUE]
    /\ server_handle_state' = StaticHandleSlot(server_handle_state, proc[p].srv)
    /\ proc' = [proc EXCEPT ![p].pc = "done", ![p].res = Ok(BaseUrl(StaticPort))]
    /\ staticOk' = TRUE
    /\ UNCHANGED <<listenerVars, url, nsrv, portEnv>>

\* Another program takes, releases or blocks a port none of our servers holds.
PortChanges(pt, v) ==
    /\ Running(pt) = {}
    /\ v # portEnv[pt]
    /\ pt = PrimaryPort => v # "listening"
    /\ portEnv' = [portEnv EXCEPT ![pt] = v]
    /\ staticOk' = (staticOk /\ pt # StaticPort)
    /\ UNCHANGED <<listenerVars, url, server_handle_state, nsrv, servers, proc>>

RelayNext ==
    \/ \E p \in Procs, u \in Urls : set_stream_url_cmd(p, u)
    \/ \E p \in Procs : StartProxyRead(p)
    \/ \E p \in Procs : StartProxyTake(p)
    \/ \E p \in Procs : AwaitStopped(p)
    \/ \E p \in Procs : StartProxyBind(p)
    \/ \E p \in Procs : StartProxyStore(p)
    \/ \E p \in Procs : StartProxySpawn(p)
    \/ \E p \in Procs : StopProxyTake(p)
    \/ \E s \in Srvs : ServerShutdown(s)
    \/ \E p \in Procs : StaticConnect(p)
    \/ \E p \in Procs : StaticBind(p)
    \/ \E p \in Procs : StaticSpawn(p)
    \/ \E pt \in Ports, v \in PortStates : PortChanges(pt, v)
    \/ \E p \in Procs : Return(p)

\* The same commands issued one after the other: each returns before the next is invoked.
RelaySeqNext ==
    \/ \E p \in Procs, u \in Urls : NoneInFlight /\ set_stream_url_cmd(p, u)
    \/ \E p \in Procs : NoneInFlight /\ StartProxyRead(p)
    \/ \E p \in Procs : StartProxyTake(p)
    \/ \E p \in Procs : AwaitStopped(p)
    \/ \E p \in Procs : StartProxyBind(p)
    \/ \E p \in Procs : StartProxyStore(p)
    \/ \E p \in Procs : StartProxySpawn(p)
    \/ \E p \in Procs : NoneInFlight /\ StopProxyTake(p)
    \/ \E s \in Srvs : ServerShutdown(s)
    \/ \E p \in Procs : NoneInFlight /\ StaticConnect(p)
    \/ \E p \in Procs : StaticBind(p)
    \/ \E p \in Procs : StaticSpawn(p)
    \/ \E pt \in Ports, v \in PortStates : PortChanges(pt, v)
    \/ \E p \in Procs : Return(p)

RelaySpec == Init /\ [][RelayNext]_vars
RelaySeqSpec == Init /\ [][RelaySeqNext]_vars

\* ================================================================ strings
\* The route handlers work on the characters of urls and playlists, so text is
\* modelled as a sequence of one-character strings and the library functions
\* the handlers call are computed character by character.

UpperChars == <<"A", "B", "C", "D", "E", "F", "G", "H", "I", "J", "K", "L", "M", "N", "O", "P", "Q", "R", "S", "T", "U", "V", "W", "X", "Y", "Z">>
LowerChars == <<"a", "b", "c", "d", "e", "f", "g", "h", "i", "j", "k", "l", "m", "n", "o", "p", "q", "r", "s", "t", "u", "v", "w", "x", "y", "z">>
DigitChars == <<"0", "1", "2", "3", "4", "5", "6", "7", "8", "9">>
HexChars == <<"0", "1", "2", "3", "4", "5", "6", "7", "8", "9", "A", "B", "C", "D", "E", "F">>
\* The printable ASCII characters in code order, starting at the space (code 32);
\* the grave accent (code 96) cannot be written in a string and is spelled out.
AsciiChars == <<" ", "!", "\"", "#", "$", "%", "&", "'", "(", ")", "*", "+", ",", "-", ".", "/", "0", "1", "2", "3", "4", "5", "6", "7", "8", "9", ":", ";", "<", "=", ">", "?", "@", "A", "B", "C", "D", "E", "F", "G", "H", "I", "J", "K", "L", "M", "N", "O", "P", "Q", "R", "S", "T", "U", "V", "W", "X", "Y", "Z", "[", "\\", "]", "^", "_">>
                  \o <<"grave">> \o <<"a", "b", "c", "d", "e", "f", "g", "h", "i", "j", "k", "l", "m", "n", "o", "p", "q", "r", "s", "t", "u", "v", "w", "x", "y", "z", "{", "|", "}", "~">>
Whitespace == {" ", "\t", "\n", "\r"}

CharsOf(s) == {s[i] : i \in 1..Len(s)}
Least(S) == CHOOSE i \in S : \A j \in S : i <= j
Greatest(S) == CHOOSE i \in S : \A j \in S : j <= i
IndexIn(c, table) ==
    IF c \in CharsOf(table) THEN Least({i \in 1..Len(table) : table[i] = c}) ELSE 0
IsAlpha(c) == c \in CharsOf(UpperChars) \cup CharsOf(LowerChars)
IsAlphanumeric(c) == IsAlpha(c) \/ c \in CharsOf(DigitChars)

\* str::starts_with, str::ends_with, str::find (0: None, else the 1-based index
\* of the first match), str::contains.
starts_with(s, pat) == Len(pat) <= Len(s) /\ SubSeq(s, 1, Len(pat)) = pat
ends_with(s, pat) == Len(pat) <= Len(s) /\ SubSeq(s, Len(s) - Len(pat) + 1, Len(s)) = pat
find(s, pat) ==
    LET hits == {i \in 1..(Len(s) + 1 - Len(pat)) : SubSeq(s, i, i + Len(pat) - 1) = pat}
    IN IF hits = {} THEN 0 ELSE Least(hits)
contains(s, pat) == find(s, pat) # 0

\* str::trim: leading and trailing whitespace removed.
trim(s) ==
    LET keep == {i \in 1..Len(s) : s[i] \notin Whitespace}
    IN IF keep = {} THEN <<>> ELSE SubSeq(s, Least(keep), Greatest(keep))

\* str::to_ascii_lowercase.
to_ascii_lowercase(s) ==
    [i \in 1..Len(s) |->
        IF IndexIn(s[i], UpperChars) # 0 THEN LowerChars[IndexIn(s[i], UpperChars)] ELSE s[i]]

\* str::lines: the text is cut after every "\n"; each piece loses its "\n" and
\* then a "\r" in front of it. Nothing follows a final "\n".
RECURSIVE lines(_)
lines(text) ==
    IF text = <<>> THEN <<>>
    ELSE LET n == find(text, <<"\n">>) IN
         IF n = 0 THEN <<text>>
         ELSE LET piece == SubSeq(text, 1, n - 1)
                  line == IF ends_with(piece, <<"\r">>) THEN SubSeq(piece, 1, Len(piece) - 1)
                          ELSE piece
              IN <<line>> \o lines(SubSeq(text, n + 1, Len(text)))

\* [String]::join(sep): the items with sep between neighbours.
RECURSIVE join(_, _)
join(items, sep) ==
    IF items = <<>> THEN <<>>
    ELSE IF Len(items) = 1 THEN items[1]
    ELSE items[1] \o sep \o join(Tail(items), sep)

\* urlencoding::encode: every byte except the unreserved characters
\* (letters, digits, "-", "_", ".", "~") becomes "%XX" in upper-case hex.
ByteOf(c) ==
    CASE c = "\t" -> 9
      [] c = "\n" -> 10
      [] c = "\r" -> 13
      [] OTHER -> 31 + IndexIn(c, AsciiChars)
encode_char(c) ==
    IF IsAlphanumeric(c) \/ c \in {"-", "_", ".", "~"} THEN <<c>>
    ELSE <<"%", HexChars[(ByteOf(c) \div 16) + 1], HexChars[(ByteOf(c) % 16) + 1]>>
RECURSIVE encode(_)
encode(s) == IF s = <<>> THEN <<>> ELSE encode_char(Head(s)) \o encode(Tail(s))

\* ------------------------------------------------------------------- urls
\* url::Url as the handlers use it: parse, join, to_string. A parsed url is a
\* record; ok = FALSE stands for the Err of parse or join. The model covers
\* urls without userinfo, port, percent-escapes or backslashes.
NoUrl == [ok |-> FALSE, scheme |-> <<>>, host |-> <<>>, path |-> <<>>, query |-> <<>>,
          fragment |-> <<>>]
\* Schemes whose urls must name a host.
SpecialSchemes == {<<"h", "t", "t", "p">>, <<"h", "t", "t", "p", "s">>, <<"w", "s">>, <<"w", "s", "s">>, <<"f", "t", "p">>}

\* Index of the ":" that ends a scheme at the front of s, or 0.
scheme_end(s) ==
    LET c == find(s, <<":">>) IN
    IF /\ c > 1
       /\ IsAlpha(s[1])
       /\ \A j \in 2..(c - 1) : IsAlphanumeric(s[j]) \/ s[j] \in {"+", "-", "."}
    THEN c ELSE 0

\* Index of the first character of s that is in set, or Len(s) + 1.
first_of(s, set) ==
    LET hits == {i \in 1..Len(s) : s[i] \in set} IN IF hits = {} THEN Len(s) + 1 ELSE Least(hits)

\* path, "?query" and "#fragment" of what follows the authority.
split_tail(t) ==
    LET h == first_of(t, {"#"})
        q == first_of(SubSeq(t, 1, h - 1), {"?"})
    IN [path |-> SubSeq(t, 1, q - 1), query |-> SubSeq(t, q, h - 1),
        fragment |-> SubSeq(t, h, Len(t))]

RECURSIVE split(_, _)
split(s, sep) ==
    LET n == find(s, sep) IN
    IF n = 0 THEN <<s>>
    ELSE <<SubSeq(s, 1, n - 1)>> \o split(SubSeq(s, n + Len(sep), Len(s)), sep)

\* Removal of "." and ".." segments; a final one leaves a trailing "/".
RECURSIVE collapse(_, _)
collapse(todo, done) ==
    IF todo = <<>> THEN done
    ELSE LET seg == Head(todo)
             slash == IF Len(todo) = 1 THEN << <<>> >> ELSE <<>>
         IN IF seg = <<".", ".">>
            THEN collapse(Tail(todo),
                          (IF done = <<>> THEN <<>> ELSE SubSeq(done, 1, Len(done) - 1)) \o slash)
            ELSE IF seg = <<".">> THEN collapse(Tail(todo), done \o slash)
            ELSE collapse(Tail(todo), Append(done, seg))
\* The path of a hierarchical url: it starts with "/" and has no dot segments.
normalize_path(path) ==
    LET p == IF starts_with(path, <<"/">>) THEN Tail(path) ELSE path
    IN <<"/">> \o join(collapse(split(p, <<"/">>), <<>>), <<"/">>)

\* What follows "scheme:" in a special url: any slashes, the host, the rest.
special_rest(scheme, rest) ==
    LET a == SubSeq(rest, first_of(rest, CharsOf(rest) \ {"/"}), Len(rest))
        e == first_of(a, {"/", "?", "#"})
        t == split_tail(SubSeq(a, e, Len(a)))
    IN IF e = 1 THEN NoUrl
       ELSE [ok |-> TRUE, scheme |-> scheme, host |-> to_ascii_lowercase(SubSeq(a, 1, e - 1)),
             path |-> normalize_path(t.path), query |-> t.query, fragment |-> t.fragment]

\* Url::parse: an absolute url or Err.
url_parse(input) ==
    LET s == trim(input)
        c == scheme_end(s)
    IN IF c = 0 THEN NoUrl
       ELSE LET scheme == to_ascii_lowercase(SubSeq(s, 1, c - 1))
                rest == SubSeq(s, c + 1, Len(s))
            IN IF scheme \in SpecialSchemes THEN special_rest(scheme, rest)
               ELSE [NoUrl EXCEPT !.ok = TRUE, !.scheme = scheme, !.path = rest]

\* Url::to_string.
url_string(u) ==
    u.scheme \o <<":">> \o (IF u.scheme \in SpecialSchemes THEN <<"/", "/">> \o u.host ELSE <<>>)
             \o u.path \o u.query \o u.fragment

\* Url::join on the url of an http(s) fetch: the reference is absolute, or it
\* replaces the authority, the path, the last path segment, the query or the
\* fragment of the base.
url_join(base, input) ==
    LET r == trim(input)
        t == split_tail(r)
        dir == SubSeq(base.path, 1, Greatest({i \in 1..Len(base.path) : base.path[i] = "/"}))
    IN IF scheme_end(r) # 0 THEN url_parse(r)
       ELSE IF r = <<>> THEN [base EXCEPT !.fragment = <<>>]
       ELSE IF starts_with(r, <<"/", "/">>) THEN url_parse(base.scheme \o <<":">> \o r)
       ELSE IF r[1] = "/"
            THEN [base EXCEPT !.path = normalize_path(t.path), !.query = t.query,
                              !.fragment = t.fragment]
       ELSE IF r[1] = "?" THEN [base EXCEPT !.query = t.query, !.fragment = t.fragment]
       ELSE IF r[1] = "#" THEN [base EXCEPT !.fragment = t.fragment]
       ELSE [base EXCEPT !.path = normalize_path(dir \o t.path), !.query = t.query,
                         !.fragment = t.fragment]

\* ================================================================= routes
\* The three GET routes every proxy server instance serves: /live.flv
\* (flv_proxy_handler), /image (image_proxy_handler) and /hls (hls_proxy_handler).
\* A request is an invocation like a command: its first step validates its
\* input, its second step is the `send().await` to the upstream and the answer.

\* ------------------------------------------------------- playlist rewriting
resolve_unchecked(base, raw) == url_string(url_join(base, raw))
\* base.join(raw).map(|u| u.to_string()).unwrap_or_else(|_| raw.to_string())
resolve(base, raw) == LET u == url_join(base, raw) IN IF u.ok THEN url_string(u) ELSE raw

proxied_unescaped(resolved) == <<"/", "h", "l", "s", "?", "u", "r", "l", "=">> \o resolved
\* format!("/hls?url={}", urlencoding::encode(&resolved))
proxied(resolved) == <<"/", "h", "l", "s", "?", "u", "r", "l", "=">> \o encode(resolved)

rewrite_attribute_uri_cut(line, base) ==
    LET key == <<"U", "R", "I", "=", "\"">>
        start == find(line, key)
        rest == SubSeq(line, start + Len(key), Len(line))
        end == find(rest, <<"\"">>)
    IN IF start = 0 THEN line
       ELSE IF end = 0 THEN line
       ELSE SubSeq(line, 1, start + Len(key) - 1)
                \o proxied(resolve(base, SubSeq(rest, 1, end - 1))) \o <<"\"">>
\* rewrite_attribute_uri: the value of the first URI="..." of the line is
\* replaced; a line without one, or without its closing quote, is returned as is.
rewrite_attribute_uri(line, base) ==
    LET key == <<"U", "R", "I", "=", "\"">>
        start == find(line, key)
        rest == SubSeq(line, start + Len(key), Len(line))
        end == find(rest, <<"\"">>)
    IN IF start = 0 THEN line
       ELSE IF end = 0 THEN line
       ELSE SubSeq(line, 1, start + Len(key) - 1)
                \o proxied(resolve(base, SubSeq(rest, 1, end - 1))) \o <<"\"">>
                \o SubSeq(rest, end + 1, Len(rest))

\* The closure mapped over text.lines() in hls_proxy_handler.
rewrite_line(line, base) ==
    LET trimmed == trim(line) IN
    IF trimmed = <<>> THEN line
    ELSE IF starts_with(trimmed, <<"#">>) THEN rewrite_attribute_uri(line, base)
    ELSE proxied(resolve(base, trimmed))

\* text.lines().map(..).collect::<Vec<String>>().join("\n")
rewrite_playlist(text, base) ==
    join([i \in 1..Len(lines(text)) |-> rewrite_line(lines(text)[i], base)], <<"\n">>)

\* ----------------------------------------------------------------- headers
\* The headers of a request to the upstream: a set of <<name, value>>, since
\* RequestBuilder::header appends and never replaces.
UserAgent ==
    "Mozilla/5.0 (Windows NT 10.0; Win64; x64) AppleWebKit/537.36 (KHTML, like Gecko) Chrome/120.0.0.0 Safari/537.36"

\* apply_common_headers: the rules are an if / else if chain over url.contains.
apply_common_headers(u) ==
    {<<"User-Agent", UserAgent>>, <<"Accept", "*/*">>, <<"Connection", "keep-alive">>}
        \cup (IF contains(u, <<"h", "d", "s", "l", "b", ".", "c", "o", "m">>) \/ contains(u, <<"b", "i", "l", "i", "b", "i", "l", "i", ".", "c", "o", "m">>)
              THEN {<<"Referer", "https://live.bilibili.com/">>,
                    <<"Origin", "https://live.bilibili.com">>}
              ELSE IF contains(u, <<"h", "u", "y", "a", ".", "c", "o", "m">>) \/ contains(u, <<"h", "y", "-", "c", "d", "n", ".", "c", "o", "m">>)
                        \/ contains(u, <<"h", "u", "y", "a", "i", "m", "g", ".", "c", "o", "m">>)
              THEN {<<"Referer", "https://www.huya.com/">>, <<"Origin", "https://www.huya.com">>}
              ELSE IF contains(u, <<"d", "o", "u", "y", "i", "n">>) \/ contains(u, <<"d", "o", "u", "y", "i", "n", "p", "i", "c", ".", "c", "o", "m">>)
              THEN {<<"Referer", "https://www.douyin.com/">>}
              ELSE {})

\* image_proxy_handler: the common headers and one more Accept.
image_headers(u) ==
    apply_common_headers(u)
        \cup {<<"Accept", "image/avif,image/webp,image/apng,image/*;q=0.8,*/*;q=0.5">>}

\* flv_proxy_handler builds its headers itself: two independent `if`s.
flv_headers(u) ==
    {<<"User-Agent", UserAgent>>, <<"Accept", "video/x-flv,application/octet-stream,*/*">>,
     <<"Range", "bytes=0-">>, <<"Connection", "keep-alive">>}
        \cup (IF contains(u, <<"h", "u", "y", "a", ".", "c", "o", "m">>) \/ contains(u, <<"h", "y", "-", "c", "d", "n", ".", "c", "o", "m">>)
                   \/ contains(u, <<"h", "u", "y", "a", "i", "m", "g", ".", "c", "o", "m">>)
              THEN {<<"Referer", "https://www.huya.com/">>, <<"Origin", "https://www.huya.com">>}
              ELSE {})
        \cup (IF contains(u, <<"b", "i", "l", "i", "v", "i", "d", "e", "o">>) \/ contains(u, <<"b", "i", "l", "i", "b", "i", "l", "i", ".", "c", "o", "m">>)
                   \/ contains(u, <<"h", "d", "s", "l", "b", ".", "c", "o", "m">>)
              THEN {<<"Referer", "https://live.bilibili.com/">>}
              ELSE {})

\* Stream urls of the platforms the rules name, of none of them, and of two at once.
PlatformTargets ==
    {"https://cdn.example.com/live/stream.flv",
     "https://al.flv.huya.com/src/stream.flv",
     "https://i0.hdslb.com/bfs/live/cover.jpg",
     "https://api.live.bilibili.com/room/v1/index.m3u8",
     "https://d1--cn-gotcha204.bilivideo.com/live-bvc/live_1.flv",
     "https://tx.hls.hy-cdn.com/src/stream.m3u8",
     "https://live-cover.huyaimg.com/cover.jpg",
     "https://pull-flv-l1.douyincdn.com/stage/stream.flv",
     "https://p3.douyinpic.com/img/avatar.jpeg",
     "https://al.flv.huya.com/src/stream.flv?from=live.bilibili.com",
     "https://www.douyin.com/share?to=huya.com"}

\* The characters of a stream url (String::contains works on them).
Text(u) ==
    CASE u = "" -> <<>>
      [] u = "https://cdn.example.com/live/stream.flv" -> <<"h", "t", "t", "p", "s", ":", "/", "/", "c", "d", "n", ".", "e", "x", "a", "m", "p", "l", "e", ".", "c", "o", "m", "/", "l", "i", "v", "e", "/", "s", "t", "r", "e", "a", "m", ".", "f", "l", "v">>
      [] u = "https://al.flv.huya.com/src/stream.flv" -> <<"h", "t", "t", "p", "s", ":", "/", "/", "a", "l", ".", "f", "l", "v", ".", "h", "u", "y", "a", ".", "c", "o", "m", "/", "s", "r", "c", "/", "s", "t", "r", "e", "a", "m", ".", "f", "l", "v">>
      [] u = "https://i0.hdslb.com/bfs/live/cover.jpg" -> <<"h", "t", "t", "p", "s", ":", "/", "/", "i", "0", ".", "h", "d", "s", "l", "b", ".", "c", "o", "m", "/", "b", "f", "s", "/", "l", "i", "v", "e", "/", "c", "o", "v", "e", "r", ".", "j", "p", "g">>
      [] u = "https://api.live.bilibili.com/room/v1/index.m3u8"
            -> <<"h", "t", "t", "p", "s", ":", "/", "/", "a", "p", "i", ".", "l", "i", "v", "e", ".", "b", "i", "l", "i", "b", "i", "l", "i", ".", "c", "o", "m", "/", "r", "o", "o", "m", "/", "v", "1", "/", "i", "n", "d", "e", "x", ".", "m", "3", "u", "8">>
      [] u = "https://d1--cn-gotcha204.bilivideo.com/live-bvc/live_1.flv"
            -> <<"h", "t", "t", "p", "s", ":", "/", "/", "d", "1", "-", "-", "c", "n", "-", "g", "o", "t", "c", "h", "a", "2", "0", "4", ".", "b", "i", "l", "i", "v", "i", "d", "e", "o", ".", "c", "o", "m", "/", "l", "i", "v", "e", "-", "b", "v", "c", "/", "l", "i", "v", "e", "_", "1", ".", "f", "l", "v">>
      [] u = "https://tx.hls.hy-cdn.com/src/stream.m3u8" -> <<"h", "t", "t", "p", "s", ":", "/", "/", "t", "x", ".", "h", "l", "s", ".", "h", "y", "-", "c", "d", "n", ".", "c", "o", "m", "/", "s", "r", "c", "/", "s", "t", "r", "e", "a", "m", ".", "m", "3", "u", "8">>
      [] u = "https://live-cover.huyaimg.com/cover.jpg" -> <<"h", "t", "t", "p", "s", ":", "/", "/", "l", "i", "v", "e", "-", "c", "o", "v", "e", "r", ".", "h", "u", "y", "a", "i", "m", "g", ".", "c", "o", "m", "/", "c", "o", "v", "e", "r", ".", "j", "p", "g">>
      [] u = "https://pull-flv-l1.douyincdn.com/stage/stream.flv"
            -> <<"h", "t", "t", "p", "s", ":", "/", "/", "p", "u", "l", "l", "-", "f", "l", "v", "-", "l", "1", ".", "d", "o", "u", "y", "i", "n", "c", "d", "n", ".", "c", "o", "m", "/", "s", "t", "a", "g", "e", "/", "s", "t", "r", "e", "a", "m", ".", "f", "l", "v">>
      [] u = "https://p3.douyinpic.com/img/avatar.jpeg" -> <<"h", "t", "t", "p", "s", ":", "/", "/", "p", "3", ".", "d", "o", "u", "y", "i", "n", "p", "i", "c", ".", "c", "o", "m", "/", "i", "m", "g", "/", "a", "v", "a", "t", "a", "r", ".", "j", "p", "e", "g">>
      [] u = "https://al.flv.huya.com/src/stream.flv?from=live.bilibili.com"
            -> <<"h", "t", "t", "p", "s", ":", "/", "/", "a", "l", ".", "f", "l", "v", ".", "h", "u", "y", "a", ".", "c", "o", "m", "/", "s", "r", "c", "/", "s", "t", "r", "e", "a", "m", ".", "f", "l", "v", "?", "f", "r", "o", "m", "=", "l", "i", "v", "e", ".", "b", "i", "l", "i", "b", "i", "l", "i", ".", "c", "o", "m">>
      [] u = "https://www.douyin.com/share?to=huya.com" -> <<"h", "t", "t", "p", "s", ":", "/", "/", "w", "w", "w", ".", "d", "o", "u", "y", "i", "n", ".", "c", "o", "m", "/", "s", "h", "a", "r", "e", "?", "t", "o", "=", "h", "u", "y", "a", ".", "c", "o", "m">>

\* ---------------------------------------------------------------- requests
\* The `url` query parameter of /image and /hls: absent, or a string.
NoQuery == [present |-> FALSE, url |-> <<>>]
Query(u) == [present |-> TRUE, url |-> u]
Queries ==
    {NoQuery, Query(<<>>), Query(<<"s", "e", "g", "m", "e", "n", "t", "1", ".", "t", "s">>), Query(<<"h", "t", "t", "p", "s", ":", "/", "/">>),
     Query(<<"h", "t", "t", "p", "s", ":", "/", "/", "c", "d", "n", ".", "e", "x", "a", "m", "p", "l", "e", ".", "c", "o", "m", "/", "l", "i", "v", "e", "/", "i", "n", "d", "e", "x", ".", "m", "3", "u", "8">>),
     Query(<<"h", "t", "t", "p", "s", ":", "/", "/", "c", "d", "n", ".", "e", "x", "a", "m", "p", "l", "e", ".", "c", "o", "m", "/", "l", "i", "v", "e", "/", "I", "N", "D", "E", "X", ".", "M", "3", "U", "8", "?", "t", "o", "k", "e", "n", "=", "a", "b", "c">>),
     Query(<<"h", "t", "t", "p", "s", ":", "/", "/", "c", "d", "n", ".", "e", "x", "a", "m", "p", "l", "e", ".", "c", "o", "m", "/", "l", "i", "v", "e", "/", "s", "e", "g", "m", "e", "n", "t", "1", ".", "t", "s">>),
     Query(<<"H", "T", "T", "P", "S", ":", "/", "/", "C", "D", "N", ".", "e", "x", "a", "m", "p", "l", "e", ".", "c", "o", "m">>)}

\* What the upstream does with a fetch: no answer (send() is Err), or a status,
\* a Content-Type header (<<>>: none), and a body that may fail while it is read.
Upstream(status, content_type, body, readable) ==
    [sent |-> TRUE, status |-> status, content_type |-> content_type, body |-> body,
     readable |-> readable]
ConnectError == [sent |-> FALSE, status |-> 0, content_type |-> <<>>, body |-> <<>>,
                 readable |-> FALSE]
Statuses == {200, 206, 404, 503}
ContentTypes == {<<>>, <<"a", "p", "p", "l", "i", "c", "a", "t", "i", "o", "n", "/", "x", "-", "m", "p", "e", "g", "U", "R", "L">>, <<"a", "u", "d", "i", "o", "/", "m", "3", "u", "8">>, <<"v", "i", "d", "e", "o", "/", "m", "p", "2", "t">>}
Playlists ==
    {<<"#", "E", "X", "T", "M", "3", "U", "\n", "#", "E", "X", "T", "-", "X", "-", "K", "E", "Y", ":", "M", "E", "T", "H", "O", "D", "=", "A", "E", "S", "-", "1", "2", "8", ",", "U", "R", "I", "=", "\"", "k", "e", "y", ".", "b", "i", "n", "\"", "\n", "#", "E", "X", "T", "I", "N", "F", ":", "4", ".", "0", ",", "\n", "s", "e", "g", "m", "e", "n", "t", "1", ".", "t", "s", "\n">>,
     <<"#", "E", "X", "T", "M", "3", "U", "\r", "\n", "\r", "\n", "#", "E", "X", "T", "-", "X", "-", "M", "A", "P", ":", "U", "R", "I", "=", "\"", "/", "i", "n", "i", "t", "/", "m", "a", "p", ".", "m", "p", "4", "\"", ",", "B", "Y", "T", "E", "R", "A", "N", "G", "E", "=", "\"", "7", "2", "0", "@", "0", "\"", "\r", "\n", "h", "t", "t", "p", "s", ":", "/", "/", "o", "t", "h", "e", "r", ".", "e", "x", "a", "m", "p", "l", "e", ".", "n", "e", "t", "/", "a", "/", "s", "e", "g", "2", ".", "t", "s", "?", "t", "=", "1", "\r", "\n">>,
     <<" ", " ", "#", "E", "X", "T", "-", "X", "-", "E", "N", "D", "L", "I", "S", "T", "\n", " ", "\t", "\n", ".", ".", "/", "u", "p", "/", ".", "/", "s", "e", "g", "3", ".", "t", "s", "\n", " ", " ", "s", "e", "g", "4", ".", "t", "s", " ", " ">>,
     <<"#", "E", "X", "T", "M", "3", "U", "\n", "s", "e", "g", "m", "e", "n", "t", "1", ".", "t", "s", "\n", "\n">>,
     <<"#", "E", "X", "T", "-", "X", "-", "K", "E", "Y", ":", "M", "E", "T", "H", "O", "D", "=", "A", "E", "S", "-", "1", "2", "8", ",", "U", "R", "I", "=", "\"", "h", "t", "t", "p", "s", ":", "/", "/", "\"", "\n", "h", "t", "t", "p", "s", ":", "/", "/", "\n", "#", "E", "X", "T", "-", "X", "-", "K", "E", "Y", ":", "U", "R", "I", "=", "\"", "k", "e", "y", ".", "b", "i", "n", "\n", "/", "/", "c", "d", "n", "2", ".", "e", "x", "a", "m", "p", "l", "e", ".", "c", "o", "m", "/", "s", "e", "g", "5", ".", "t", "s">>,
     <<"#", "E", "X", "T", "-", "X", "-", "D", "A", "T", "E", "R", "A", "N", "G", "E", ":", "I", "D", "=", "\"", "a", "d", "\"", ",", "X", "-", "A", "S", "S", "E", "T", "-", "U", "R", "I", "=", "\"", "a", "d", "/", "m", "a", "s", "t", "e", "r", ".", "m", "3", "u", "8", "\"", ",", "D", "U", "R", "A", "T", "I", "O", "N", "=", "1", "5", ".", "0", "\n", "\n", "\n">>,
     <<>>}
\* Upstream behaviours for any route, and those that answer /hls with a playlist.
Upstreams ==
    {ConnectError}
        \cup {Upstream(st, ct, <<"B", "O", "D", "Y">>, TRUE) : st \in Statuses, ct \in ContentTypes}
        \cup {Upstream(st, <<"v", "i", "d", "e", "o", "/", "m", "p", "2", "t">>, <<"B", "O", "D", "Y">>, FALSE) : st \in Statuses}
PlaylistUpstreams ==
    {Upstream(200, ct, text, TRUE) : ct \in {<<"a", "p", "p", "l", "i", "c", "a", "t", "i", "o", "n", "/", "x", "-", "m", "p", "e", "g", "U", "R", "L">>, <<"v", "i", "d", "e", "o", "/", "m", "p", "2", "t">>},
                                     text \in Playlists}
        \cup {Upstream(200, <<"a", "p", "p", "l", "i", "c", "a", "t", "i", "o", "n", "/", "x", "-", "m", "p", "e", "g", "U", "R", "L">>, <<"#", "E", "X", "T", "M", "3", "U", "\n">>, FALSE), ConnectError}

\* reqwest sends only to http and https urls; any other url makes send() fail.
Sendable(u) == url_parse(u).ok /\ url_parse(u).scheme \in {<<"h", "t", "t", "p">>, <<"h", "t", "t", "p", "s">>}

\* What a handler returns: status, Content-Type (<<>>: not set by the handler), body.
Response(status, content_type, body) ==
    [status |-> status, content_type |-> content_type, body |-> body]

\* StatusCode::is_success
is_success(status) == status \in 200..299
from_u16_as_ok(status) == 200
\* StatusCode::from_u16(status).unwrap_or(INTERNAL_SERVER_ERROR)
from_u16(status) == IF status \in 100..999 THEN status ELSE 500
\* upstream_response.text().await.unwrap_or_else(..)
error_text(up) == IF up.readable THEN up.body ELSE <<"F", "a", "i", "l", "e", "d", " ", "t", "o", " ", "r", "e", "a", "d", " ", "e", "r", "r", "o", "r", " ", "b", "o", "d", "y", " ", "f", "r", "o", "m", " ", "u", "p", "s", "t", "r", "e", "a", "m">>
\* headers().get(CONTENT_TYPE).and_then(..).unwrap_or("application/octet-stream")
content_type(up) ==
    IF up.content_type = <<>> THEN <<"a", "p", "p", "l", "i", "c", "a", "t", "i", "o", "n", "/", "o", "c", "t", "e", "t", "-", "s", "t", "r", "e", "a", "m">> ELSE up.content_type
\* bytes_stream(): the upstream's bytes as they arrive; a read error ends the stream.
streaming(up) == IF up.readable THEN up.body ELSE <<"Upstream stream error">>

\* A server instance answers requests from bind until it has stopped.
Serving(s) == servers[s].state = "running"

stream_url_unset(s) == ""
\* web::Data<StreamUrlStore>: every server instance holds a clone of the one
\* managed store, so a handler on server s locks and reads the shared url.
stream_url_store(s) == url

taken_from(u) == ""
\* stream_url_store.url.lock().unwrap().clone(): the store keeps its url.
cloned_from(u) == u

flv_url_never_missing(u) == FALSE
\* flv_proxy_handler: `if url.is_empty()`
flv_url_missing(u) == u = ""

\* flv_proxy_handler: the answer once send() has returned.
flv_response(u, up) ==
    IF ~up.sent
    THEN Response(500, <<>>, <<"Error connecting to upstream FLV stream ", u>>)
    ELSE IF is_success(up.status)
    THEN Response(200, <<"v", "i", "d", "e", "o", "/", "x", "-", "f", "l", "v">>, streaming(up))
    ELSE Response(from_u16(up.status), <<>>,
                  <<"Error fetching FLV stream from upstream (reqwest): ", u, up.status,
                    error_text(up)>>)

\* image_proxy_handler: the answer once send() has returned.
image_response(u, up) ==
    IF ~up.sent
    THEN Response(500, <<>>, <<"Error connecting to upstream IMAGE ", u>>)
    ELSE IF is_success(up.status)
    THEN IF up.readable THEN Response(200, content_type(up), up.body)
         ELSE Response(500, <<>>, <<"Failed to read image bytes">>)
    ELSE Response(from_u16(up.status), <<>>,
                  <<"Error fetching IMAGE from upstream (reqwest): ", u, up.status,
                    error_text(up)>>)

is_m3u8_by_type(upstream_url, ct) ==
    \/ contains(to_ascii_lowercase(ct), <<"m", "p", "e", "g", "u", "r", "l">>)
    \/ contains(to_ascii_lowercase(ct), <<"m", "3", "u", "8">>)
\* hls_proxy_handler: the upstream answer is a playlist.
is_m3u8(upstream_url, ct) ==
    \/ ends_with(to_ascii_lowercase(upstream_url.path), <<".", "m", "3", "u", "8">>)
    \/ contains(to_ascii_lowercase(ct), <<"m", "p", "e", "g", "u", "r", "l">>)
    \/ contains(to_ascii_lowercase(ct), <<"m", "3", "u", "8">>)

\* hls_proxy_handler: the answer once send() has returned.
hls_response(u, up) ==
    IF ~up.sent
    THEN Response(500, <<>>, <<"Error connecting to upstream HLS ", u>>)
    ELSE IF ~is_success(up.status)
    THEN Response(from_u16(up.status), <<>>,
                  <<"Error fetching HLS resource from upstream: ", u, up.status,
                    error_text(up)>>)
    ELSE IF is_m3u8(url_parse(u), content_type(up))
    THEN IF up.readable
         THEN Response(200, <<"a", "p", "p", "l", "i", "c", "a", "t", "i", "o", "n", "/", "v", "n", "d", ".", "a", "p", "p", "l", "e", ".", "m", "p", "e", "g", "u", "r", "l">>,
                       rewrite_playlist(up.body, url_parse(u)))
         ELSE Response(500, <<>>, <<"Failed to read playlist text">>)
    ELSE Response(200, content_type(up), streaming(up))

\* web::Query<ImageQuery> and `if url.is_empty()`: 0, or the status of the refusal.
query_error(q) == IF ~q.present \/ q.url = <<>> THEN 400 ELSE 0
hls_query_unparsed(q) == query_error(q)
\* hls_proxy_handler: the url must also parse.
hls_query_error(q) ==
    IF query_error(q) # 0 THEN query_error(q)
    ELSE IF ~url_parse(q.url).ok THEN 400 ELSE 0

RouteOps == {"flv_proxy_handler", "image_proxy_handler", "hls_proxy_handler"}
\* No other request is being handled (requests share nothing but the stream url).
NoRequest == \A q \in Procs : proc[q].op \notin RouteOps
\* No command is in flight; requests may be.
NoCommand == \A q \in Procs : proc[q].op \in RouteOps \/ proc[q].pc = "idle"

\* flv_proxy_handler: lock the store, clone the url; an empty one is a 404.
FlvHandlerRead(p, s) ==
    /\ proc[p].pc = "idle"
    /\ Free("StreamUrlStore.url")
    /\ Serving(s)
    /\ LET u == stream_url_store(s) IN
       proc' = [proc EXCEPT ![p] =
          IF flv_url_missing(u)
          THEN [Idle EXCEPT !.op = "flv_proxy_handler", !.pc = "done", !.srv = s, !.url = u,
                            !.res = Response(404, <<>>, "Stream URL is not set or empty.")]
          ELSE [Idle EXCEPT !.op = "flv_proxy_handler", !.pc = "flv_send", !.srv = s,
                            !.url = u]]
    /\ url' = cloned_from(url)
    /\ UNCHANGED <<listenerVars, server_handle_state, nsrv, servers, portEnv, staticOk>>

\* flv_proxy_handler: the request to the upstream and the answer built from it.
FlvHandlerSend(p, up) ==
    /\ proc[p].pc = "flv_send"
    /\ proc' = [proc EXCEPT ![p].pc = "done", ![p].fetched = <<proc[p].url>>,
                            ![p].headers = flv_headers(Text(proc[p].url)),
                            ![p].upstream = up, ![p].res = flv_response(proc[p].url, up)]
    /\ UNCHANGED <<listenerVars, relayVars>>

\* image_proxy_handler: the query must carry a non-empty url.
ImageHandlerQuery(p, s, q) ==
    /\ proc[p].pc = "idle"
    /\ Serving(s)
    /\ proc' = [proc EXCEPT ![p] =
          IF query_error(q) # 0
          THEN [Idle EXCEPT !.op = "image_proxy_handler", !.pc = "done", !.srv = s,
                            !.query = q,
                            !.res = Response(query_error(q), <<>>,
                                             "Missing url query parameter")]
          ELSE [Idle EXCEPT !.op = "image_proxy_handler", !.pc = "image_send", !.srv = s,
                            !.query = q]]
    /\ UNCHANGED <<listenerVars, relayVars>>

\* image_proxy_handler: the request to the upstream and the answer built from it.
ImageHandlerSend(p, up) ==
    /\ proc[p].pc = "image_send"
    /\ up.sent => Sendable(proc[p].query.url)
    /\ proc' = [proc EXCEPT ![p].pc = "done", ![p].fetched = <<proc[p].query.url>>,
                            ![p].headers = image_headers(proc[p].query.url),
                            ![p].upstream = up,
                            ![p].res = image_response(proc[p].query.url, up)]
    /\ UNCHANGED <<listenerVars, relayVars>>

\* hls_proxy_handler: the query must carry a non-empty url that parses.
HlsHandlerQuery(p, s, q) ==
    /\ proc[p].pc = "idle"
    /\ Serving(s)
    /\ proc' = [proc EXCEPT ![p] =
          IF hls_query_error(q) # 0
          THEN [Idle EXCEPT !.op = "hls_proxy_handler", !.pc = "done", !.srv = s,
                            !.query = q,
                            !.res = Response(hls_query_error(q), <<>>,
                                             IF query_error(q) # 0
                                             THEN "Missing url query parameter"
                                             ELSE "Invalid url")]
          ELSE [Idle EXCEPT !.op = "hls_proxy_handler", !.pc = "hls_send", !.srv = s,
                            !.query = q]]
    /\ UNCHANGED <<listenerVars, relayVars>>

\* hls_proxy_handler: the request to upstream_url.as_str() and the answer built from it.
HlsHandlerSend(p, up) ==
    /\ proc[p].pc = "hls_send"
    /\ up.sent => Sendable(proc[p].query.url)
    /\ proc' = [proc EXCEPT ![p].pc = "done",
                            ![p].fetched = <<url_string(url_parse(proc[p].query.url))>>,
                            ![p].headers =
                                apply_common_headers(url_string(url_parse(proc[p].query.url))),
                            ![p].upstream = up,
                            ![p].res = hls_response(proc[p].query.url, up)]
    /\ UNCHANGED <<listenerVars, relayVars>>

\* Values a caller passes to set_stream_url_cmd while the routes are in use.
Targets == Urls \cup {"https://al.flv.huya.com/src/stream.flv"}

\* The /live.flv route while the commands are issued one after the other: a
\* request comes in at any time, on any server instance that is running.
MediaNext ==
    \/ \E p \in Procs, u \in Targets : NoCommand /\ set_stream_url_cmd(p, u)
    \/ \E p \in Procs : NoCommand /\ StartProxyRead(p)
    \/ \E p \in Procs : StartProxyTake(p)
    \/ \E p \in Procs : AwaitStopped(p)
    \/ \E p \in Procs : StartProxyBind(p)
    \/ \E p \in Procs : StartProxyStore(p)
    \/ \E p \in Procs : StartProxySpawn(p)
    \/ \E p \in Procs : NoCommand /\ StopProxyTake(p)
    \/ \E s \in Srvs : ServerShutdown(s)
    \/ \E p \in Procs : NoCommand /\ StaticConnect(p)
    \/ \E p \in Procs : StaticBind(p)
    \/ \E p \in Procs : StaticSpawn(p)
    \/ \E p \in Procs, s \in Srvs : NoRequest /\ FlvHandlerRead(p, s)
    \/ \E p \in Procs, up \in Upstreams : FlvHandlerSend(p, up)
    \/ \E p \in Procs : Return(p)

\* The three routes of the static proxy, one request at a time, against every
\* upstream behaviour; the stream url is set in between.
RouteNext ==
    \/ \E p \in Procs, u \in Targets : NoCommand /\ set_stream_url_cmd(p, u)
    \/ \E p \in Procs : NoCommand /\ StaticConnect(p)
    \/ \E p \in Procs : StaticBind(p)
    \/ \E p \in Procs : StaticSpawn(p)
    \/ \E p \in Procs, s \in Srvs : NoRequest /\ FlvHandlerRead(p, s)
    \/ \E p \in Procs, up \in Upstreams : FlvHandlerSend(p, up)
    \/ \E p \in Procs, s \in Srvs, q \in Queries : NoRequest /\ ImageHandlerQuery(p, s, q)
    \/ \E p \in Procs, up \in Upstreams : ImageHandlerSend(p, up)
    \/ \E p \in Procs, s \in Srvs, q \in Queries : NoRequest /\ HlsHandlerQuery(p, s, q)
    \/ \E p \in Procs, up \in Upstreams \cup PlaylistUpstreams : HlsHandlerSend(p, up)
    \/ \E p \in Procs : Return(p)

MediaSpec == Init /\ [][MediaNext]_vars
RouteSpec == Init /\ [][RouteNext]_vars

\* The three routes of the static proxy asked for urls of every platform, the
\* upstream answering or not.
PlatformQueries == {Query(Text(u)) : u \in PlatformTargets}
PlatformUpstreams == {ConnectError, Upstream(200, <<"v", "i", "d", "e", "o", "/", "x", "-", "f", "l", "v">>, <<"B", "O", "D", "Y">>, TRUE)}
HeaderNext ==
    \/ \E p \in Procs, u \in PlatformTargets : NoCommand /\ set_stream_url_cmd(p, u)
    \/ \E p \in Procs : NoCommand /\ StaticConnect(p)
    \/ \E p \in Procs : StaticBind(p)
    \/ \E p \in Procs : StaticSpawn(p)
    \/ \E p \in Procs, s \in Srvs : NoRequest /\ FlvHandlerRead(p, s)
    \/ \E p \in Procs, up \in PlatformUpstreams : FlvHandlerSend(p, up)
    \/ \E p \in Procs, s \in Srvs, q \in PlatformQueries : NoRequest /\ ImageHandlerQuery(p, s, q)
    \/ \E p \in Procs, up \in PlatformUpstreams : ImageHandlerSend(p, up)
    \/ \E p \in Procs, s \in Srvs, q \in PlatformQueries : NoRequest /\ HlsHandlerQuery(p, s, q)
    \/ \E p \in Procs, up \in PlatformUpstreams : HlsHandlerSend(p, up)
    \/ \E p \in Procs : Return(p)
HeaderSpec == Init /\ [][HeaderNext]_vars

\* The three routes while the commands are issued one after the other, with a
\* request of each outcome: refused, not connected, answered, failed upstream.
FrameQueries == {NoQuery, Query(<<"h", "t", "t", "p", "s", ":", "/", "/", "c", "d", "n", ".", "e", "x", "a", "m", "p", "l", "e", ".", "c", "o", "m", "/", "l", "i", "v", "e", "/", "i", "n", "d", "e", "x", ".", "m", "3", "u", "8">>)}
FrameUpstreams ==
    {ConnectError, Upstream(200, <<"a", "p", "p", "l", "i", "c", "a", "t", "i", "o", "n", "/", "x", "-", "m", "p", "e", "g", "U", "R", "L">>, <<"#", "E", "X", "T", "M", "3", "U", "\n", "s", "e", "g", "m", "e", "n", "t", "1", ".", "t", "s", "\n">>, TRUE),
     Upstream(404, <<>>, <<"B", "O", "D", "Y">>, TRUE)}
FrameNext ==
    \/ \E p \in Procs, u \in Targets : NoCommand /\ set_stream_url_cmd(p, u)
    \/ \E p \in Procs : NoCommand /\ StartProxyRead(p)
    \/ \E p \in Procs : StartProxyTake(p)
    \/ \E p \in Procs : AwaitStopped(p)
    \/ \E p \in Procs : StartProxyBind(p)
    \/ \E p \in Procs : StartProxyStore(p)
    \/ \E p \in Procs : StartProxySpawn(p)
    \/ \E p \in Procs : NoCommand /\ StopProxyTake(p)
    \/ \E s \in Srvs : ServerShutdown(s)
    \/ \E p \in Procs : NoCommand /\ StaticConnect(p)
    \/ \E p \in Procs : StaticBind(p)
    \/ \E p \in Procs : StaticSpawn(p)
    \/ \E p \in Procs, s \in Srvs : NoRequest /\ FlvHandlerRead(p, s)
    \/ \E p \in Procs, up \in FrameUpstreams : FlvHandlerSend(p, up)
    \/ \E p \in Procs, s \in Srvs, q \in FrameQueries : NoRequest /\ ImageHandlerQuery(p, s, q)
    \/ \E p \in Procs, up \in FrameUpstreams : ImageHandlerSend(p, up)
    \/ \E p \in Procs, s \in Srvs, q \in FrameQueries : NoRequest /\ HlsHandlerQuery(p, s, q)
    \/ \E p \in Procs, up \in FrameUpstreams : HlsHandlerSend(p, up)
    \/ \E p \in Procs : Return(p)
FrameSpec == Init /\ [][FrameNext]_vars

\* The whole backend: listener registry and proxies share no state.
Next == ListenerNext \/ RelayNext
Spec == Init /\ [][Next]_vars

\* ================================================================ claims

Registered == {e[2] : e \in danmaku_handles}
Created(c) == channels[c].fate # "none"
Signalled(c) == channels[c].fate \in {"sent_ok", "sent_err"}

\* C1: with the commands issued one after the other, the registry holds at most
\* one registration per room id, each stored sender is unsent and belongs to its
\* room, and every registration no longer stored (replaced by a start, removed by
\* a stop) had its sender signalled; a room's earlier registrations are all
\* signalled once a later one exists.
RegistryInvariant ==
    /\ \A r \in Rooms : Cardinality(Lookup(danmaku_handles, r)) <= 1
    /\ \A e \in danmaku_handles :
          channels[e[2]].room = e[1] /\ channels[e[2]].fate = "held"
    /\ \A c \in Chans : Created(c) /\ c \notin Registered => Signalled(c)
    /\ \A c, d \in Chans :
          c < d /\ Created(d) /\ channels[c].room = channels[d].room => Signalled(c)

\* C1 witness: a start replaced a live registration and its successor is stored.
RegistryInvariantWitness ==
    \E c, d \in Chans :
        /\ channels[c].by = "start" /\ channels[c].fate = "sent_ok"
        /\ <<channels[c].room, d>> \in danmaku_handles

\* C2: under every interleaving, every launched listener whose sender is not the
\* one stored in the registry has had its sender signalled.
NoUnsignalledOrphan ==
    \A c \in Chans :
        channels[c].task # "none" /\ c \notin Registered => Signalled(c)

\* C3: when a start stores its sender for room r, every earlier registration of
\* r has already had its sender invoked, and afterwards the registry holds for r
\* exactly that new, unsent sender.
SupersedeOrder ==
    [][\A p \in Procs :
          proc[p].pc = "insert" /\ proc'[p].pc = "spawn" =>
             /\ \A c \in Chans : channels[c].room = proc[p].room => Signalled(c)
             /\ Lookup(danmaku_handles', proc[p].room) = {proc'[p].chan}
             /\ channels'[proc'[p].chan].fate = "held"]_vars

\* C3 witness: a second start for the room has stored its sender after signalling the first's.
SupersedeOrderWitness ==
    \E p \in Procs, c \in Chans :
        /\ proc[p].op = "start_danmaku_listener" /\ proc[p].pc = "done"
        /\ channels[c].room = proc[p].room /\ c # proc[p].chan
        /\ channels[c].by = "start"
        /\ Lookup(danmaku_handles, proc[p].room) = {proc[p].chan}

\* C4: a stop returns an error exactly when a registration existed for the room
\* and its receiver was already gone; otherwise it returns Ok, and with no
\* registration it leaves registry and channels as they were.
StopErrorIff ==
    [][\A p \in Procs :
          proc[p].pc = "idle" /\ proc'[p].op = "stop_danmaku_listener" =>
             LET ex == {e \in danmaku_handles : e[1] = proc'[p].room} IN
             /\ proc'[p].pc = "done"
             /\ IsErr(proc'[p].res) <=>
                    \E e \in ex : channels[e[2]].task \in {"cancelled", "exited"}
             /\ IsOk(proc'[p].res) <=> ~IsErr(proc'[p].res)
             /\ \A e \in ex : e \notin danmaku_handles'
             /\ ex = {} => /\ IsOk(proc'[p].res)
                           /\ danmaku_handles' = danmaku_handles
                           /\ channels' = channels]_vars

\* C4 witness: a stop found a registration whose listener had ended and returned the error.
StopErrorIffWitness ==
    \E p \in Procs, c \in Chans :
        /\ proc[p].op = "stop_danmaku_listener" /\ IsErr(proc[p].res)
        /\ channels[c].by = "stop" /\ channels[c].fate = "sent_err"

NoUrlError == Err("Stream URL is not set in store. Cannot start proxy.")

\* C5 (as stated): every start_proxy invoked while a handle is stored has, by the
\* time it returns, had that stored instance told to shut down immediately.
StartAlwaysSupersedes ==
    \A p \in Procs :
        proc[p].op = "start_proxy" /\ proc[p].pc = "done" /\ proc[p].found # 0
            => servers[proc[p].found].stop = "immediate"

\* C5 (amended): a start_proxy that finds the stream url non-empty goes on to take
\* the slot; it takes whatever handle is stored, asks that instance for the
\* immediate shutdown, and reaches its bind only with that instance stopped.
SupersedeBeforeBind ==
    [][\A p \in Procs :
          /\ proc[p].pc = "idle" /\ proc'[p].op = "start_proxy" /\ url # ""
                => proc'[p].pc = "take"
          /\ proc[p].pc = "take" /\ proc'[p].pc # "take" =>
                /\ server_handle_state' = 0
                /\ proc'[p].taken = server_handle_state
                /\ server_handle_state # 0 =>
                      /\ servers'[server_handle_state].stop = "immediate"
                      /\ proc'[p].pc = "await"
          /\ proc[p].op = "start_proxy" /\ proc[p].pc = "bind" /\ proc'[p].pc # "bind"
             /\ proc[p].taken # 0
                => /\ servers[proc[p].taken].state = "stopped"
                   /\ servers[proc[p].taken].stop = "immediate"]_vars

\* C5 witness: a start has bound its new instance after the instance it took was stopped.
SupersedeBeforeBindWitness ==
    \E p \in Procs :
        /\ proc[p].op = "start_proxy" /\ proc[p].pc \in {"store", "spawn", "done"}
        /\ proc[p].taken # 0 /\ proc[p].srv # 0
        /\ servers[proc[p].taken].state = "stopped"
        /\ servers[proc[p].srv].state = "running"

\* C6: under every interleaving of start_proxy and stop_proxy at most one server
\* of this process is bound to the primary port, and the slot holds nothing or
\* the handle of one server that was bound to the primary port.
AtMostOnePrimary ==
    /\ Cardinality({s \in Srvs : servers[s].state = "running"
                                 /\ servers[s].port = PrimaryPort}) <= 1
    /\ server_handle_state # 0 =>
          /\ server_handle_state \in 1..nsrv
          /\ servers[server_handle_state].port = PrimaryPort

\* C6 witness: one start has bound the primary port while another start is about to bind.
AtMostOnePrimaryWitness ==
    \E p, q \in Procs :
        /\ p # q
        /\ proc[p].op = "start_proxy" /\ proc[p].pc = "store"
        /\ proc[q].op = "start_proxy" /\ proc[q].pc = "bind"
        /\ servers[proc[p].srv].state = "running"

\* C7: stop_proxy empties the slot; with a handle stored it asks that instance
\* for the immediate shutdown, with none it returns Ok at once and changes
\* nothing; whenever it returns, it returns Ok.
StopAlwaysSucceeds ==
    [][\A p \in Procs :
          /\ proc[p].pc = "idle" /\ proc'[p].op = "stop_proxy" =>
                /\ server_handle_state' = 0
                /\ IF server_handle_state # 0
                   THEN /\ servers'[server_handle_state].stop = "immediate"
                        /\ proc'[p].pc = "await"
                        /\ proc'[p].taken = server_handle_state
                   ELSE /\ proc'[p].pc = "done"
                        /\ proc'[p].res = <<"Ok", "unit">>
                        /\ servers' = servers /\ nsrv' = nsrv
                        /\ url' = url /\ portEnv' = portEnv
          /\ proc'[p].op = "stop_proxy" /\ proc[p].pc # "done" /\ proc'[p].pc = "done"
                => /\ proc'[p].res = <<"Ok", "unit">>
                   /\ proc'[p].taken # 0 => servers'[proc'[p].taken].state = "stopped"]_vars

\* C7 witness: a stop that found a handle has returned; the instance is stopped, the slot empty.
StopAlwaysSucceedsWitness ==
    \E p \in Procs :
        /\ proc[p].op = "stop_proxy" /\ proc[p].pc = "done" /\ proc[p].taken # 0
        /\ servers[proc[p].taken].state = "stopped"
        /\ server_handle_state = 0

StaticStartIdempotent ==
    [][/\ \A p \in Procs :
             proc'[p].op = "start_static_proxy_server"
             /\ proc[p].pc # "done" /\ proc'[p].pc = "done" =>
                /\ staticOk => proc'[p].res[1] = "Ok"
                /\ proc'[p].res[1] = "Ok" => proc'[p].res = <<"Ok", <<"http://127.0.0.1:", 34721>>>>
       /\ Cardinality({s \in Srvs : servers'[s].port = StaticPort}) <= 1]_vars

\* C9 witness: two static starts have both returned Ok with our static server running.
StaticStartIdempotentWitness ==
    \E p, q \in Procs :
        /\ p # q
        /\ proc[p].op = "start_static_proxy_server" /\ IsOk(proc[p].res)
        /\ proc[q].op = "start_static_proxy_server" /\ IsOk(proc[q].res)
        /\ proc[p].srv # 0 /\ proc[q].srv = 0
        /\ staticOk

StaticPortHeld ==
    \E s \in Srvs : servers[s].state = "running" /\ servers[s].port = StaticPort

\* C10: a static start whose connect succeeds returns the base url and binds
\* nothing; otherwise it goes on to bind, and there a port in use gives Ok with
\* the base url, any other bind error gives Err, a free port a running server.
StaticStartClassification ==
    [][\A p \in Procs :
          /\ proc[p].pc = "idle" /\ proc'[p].op = "start_static_proxy_server" =>
                IF StaticPortHeld \/ portEnv[StaticPort] = "listening"
                THEN /\ proc'[p].pc = "done"
                     /\ proc'[p].res = <<"Ok", <<"http://127.0.0.1:", 34721>>>>
                     /\ servers' = servers /\ nsrv' = nsrv
                ELSE /\ proc'[p].pc = "static_bind"
                     /\ servers' = servers /\ nsrv' = nsrv
          /\ proc[p].pc = "static_bind" /\ proc'[p].pc # "static_bind" =>
                IF StaticPortHeld \/ portEnv[StaticPort] \in {"bound", "listening"}
                THEN /\ proc'[p].pc = "done"
                     /\ proc'[p].res = <<"Ok", <<"http://127.0.0.1:", 34721>>>>
                     /\ servers' = servers
                ELSE IF portEnv[StaticPort] = "fault"
                THEN /\ proc'[p].pc = "done"
                     /\ proc'[p].res[1] = "Err"
                     /\ servers' = servers
                ELSE /\ proc'[p].pc = "static_spawn"
                     /\ nsrv' = nsrv + 1
                     /\ servers'[nsrv'].state = "running"
                     /\ servers'[nsrv'].port = StaticPort]_vars

\* C10 witness: one static start got a bind error of another kind and returned
\* Err, another found the port bound but not accepting and returned Ok.
StaticStartClassificationWitness ==
    \E p, q \in Procs :
        /\ proc[p].op = "start_static_proxy_server" /\ IsErr(proc[p].res)
        /\ proc[q].op = "start_static_proxy_server" /\ IsOk(proc[q].res)
        /\ portEnv[StaticPort] = "bound"
        /\ ~StaticPortHeld

\* C11: the static proxy is independent of the primary one. No step of
\* start_static_proxy_server changes the primary handle slot, the slot never
\* holds a static server, and no step of any command asks a running static
\* server to stop or stops it.
StaticIndependent ==
    [][ /\ (\E p \in Procs : /\ proc'[p].pc # proc[p].pc
                             /\ proc'[p].op = "start_static_proxy_server")
            => server_handle_state' = server_handle_state
        /\ server_handle_state' # 0 => servers'[server_handle_state'].port = PrimaryPort
        /\ \A s \in Srvs :
              (servers[s].port = StaticPort /\ servers[s].state = "running")
                  => (servers'[s].state = "running" /\ servers'[s].stop = "none") ]_vars
\* A static server keeps running although a primary server bound after it was stopped.
StaticIndependentWitness ==
    \E s \in Srvs, t \in Srvs :
        /\ s < t
        /\ servers[s].port = StaticPort /\ servers[s].state = "running" /\ servers[s].spawned
        /\ servers[t].port = PrimaryPort /\ servers[t].state = "stopped"

\* A /live.flv request that has just been accepted by its handler.
FlvStarts(p) == proc[p].pc = "idle" /\ proc'[p].op = "flv_proxy_handler"

\* C12: a /live.flv request that finds the stream url empty is answered 404 at
\* once, on the primary and on the static proxy alike, and fetches nothing.
EmptyTargetNotFound ==
    [][ \A p \in Procs :
          (FlvStarts(p) /\ url = "")
              => /\ proc'[p].pc = "done"
                 /\ proc'[p].res.status = 404
                 /\ proc'[p].fetched = <<>> ]_vars
\* The primary proxy, started while a url was set, answers 404 after the url was cleared.
EmptyTargetNotFoundWitness ==
    \E p \in Procs :
        /\ proc[p].op = "flv_proxy_handler" /\ proc[p].pc = "done"
        /\ servers[proc[p].srv].port = PrimaryPort
        /\ url = "" /\ proc[p].res.status = 404 /\ proc[p].fetched = <<>>

\* C13: the stream url is one slot. set_stream_url_cmd replaces it with its
\* argument and nothing else writes it; a /live.flv request reads the slot when
\* it starts, whatever the url was when its server was started, and fetches
\* exactly the url it read.
FreshStreamUrl ==
    [][ /\ \A p \in Procs :
              (proc[p].pc = "idle" /\ proc'[p].op = "set_stream_url_cmd")
                  => url' = proc'[p].url
        /\ (\A p \in Procs : ~(proc[p].pc = "idle" /\ proc'[p].op = "set_stream_url_cmd"))
              => url' = url
        /\ \A p \in Procs : FlvStarts(p) => proc'[p].url = url
        /\ \A p \in Procs :
              (proc[p].pc = "flv_send" /\ proc'[p].pc = "done")
                  => proc'[p].fetched = <<proc[p].url>> ]_vars
\* A set has just completed (no command ran since) and a request on the
\* primary proxy, which was started before that set, fetched the url it stored.
FreshStreamUrlWitness ==
    \E p \in Procs, q \in Procs :
        /\ proc[q].op = "set_stream_url_cmd" /\ proc[q].pc = "done"
        /\ proc[q].url = "https://al.flv.huya.com/src/stream.flv"
        /\ proc[p].op = "flv_proxy_handler" /\ proc[p].pc = "done"
        /\ servers[proc[p].srv].port = PrimaryPort
        /\ proc[p].fetched = <<proc[q].url>>

\* A request of the /image or /hls route whose query was refused.
Refused(p) == proc[p].pc = "done" /\ proc[p].res.status = 400 /\ proc[p].fetched = <<>>

\* C14: /image answers 400 when the url parameter is missing or empty; /hls
\* answers 400 when it is missing, empty or not a well-formed absolute url
\* (a relative reference, a scheme without host); none of these is fetched.
QueryValidation ==
    \A p \in Procs :
        /\ (proc[p].op = "image_proxy_handler"
                /\ (~proc[p].query.present \/ proc[p].query.url = <<>>))
              => Refused(p)
        /\ (proc[p].op = "hls_proxy_handler"
                /\ (\/ ~proc[p].query.present
                    \/ proc[p].query.url \in {<<>>, <<"s", "e", "g", "m", "e", "n", "t", "1", ".", "t", "s">>, <<"h", "t", "t", "p", "s", ":", "/", "/">>}
                    \/ ~url_parse(proc[p].query.url).ok))
              => Refused(p)
\* /hls was asked for a relative reference and refused it.
QueryValidationWitness ==
    \E p \in Procs :
        /\ proc[p].op = "hls_proxy_handler" /\ proc[p].query = Query(<<"s", "e", "g", "m", "e", "n", "t", "1", ".", "t", "s">>)
        /\ Refused(p)

\* A request whose handler has sent to the upstream and answered.
Answered(p) == proc[p].op \in RouteOps /\ proc[p].pc = "done" /\ proc[p].fetched # <<>>

\* C15: on each of the three routes, a non-success upstream status is answered
\* with the same status and an error message as body, a failed connection with
\* a 5xx, and the answer is 200 only if the upstream status was a success.
UpstreamFailurePassthrough ==
    \A p \in Procs :
        Answered(p) =>
            /\ ~proc[p].upstream.sent => proc[p].res.status \in 500..599
            /\ (proc[p].upstream.sent /\ proc[p].upstream.status \notin 200..299)
                  => /\ proc[p].res.status = proc[p].upstream.status
                     /\ proc[p].res.body # proc[p].upstream.body
                     /\ proc[p].res.body[1] \in
                            {"Error fetching FLV stream from upstream (reqwest): ",
                             "Error fetching IMAGE from upstream (reqwest): ",
                             "Error fetching HLS resource from upstream: "}
            /\ proc[p].res.status = 200
                  => (proc[p].upstream.sent /\ proc[p].upstream.status \in 200..299)
\* /hls passed an upstream 404 through.
UpstreamFailurePassthroughWitness ==
    \E p \in Procs :
        /\ Answered(p) /\ proc[p].op = "hls_proxy_handler"
        /\ proc[p].upstream.sent /\ proc[p].upstream.status = 404
        /\ proc[p].res.status = 404

\* An /hls request whose upstream answered with a success status and a body that arrived whole.
HlsDelivered(p) ==
    /\ Answered(p) /\ proc[p].op = "hls_proxy_handler"
    /\ proc[p].upstream.sent /\ proc[p].upstream.status \in 200..299
    /\ proc[p].upstream.readable
\* The url asked for ends in ".m3u8" (in any case), or the upstream names a playlist type.
IndicatesPlaylist(p) ==
    \/ proc[p].query.url \in {<<"h", "t", "t", "p", "s", ":", "/", "/", "c", "d", "n", ".", "e", "x", "a", "m", "p", "l", "e", ".", "c", "o", "m", "/", "l", "i", "v", "e", "/", "i", "n", "d", "e", "x", ".", "m", "3", "u", "8">>,
                              <<"h", "t", "t", "p", "s", ":", "/", "/", "c", "d", "n", ".", "e", "x", "a", "m", "p", "l", "e", ".", "c", "o", "m", "/", "l", "i", "v", "e", "/", "I", "N", "D", "E", "X", ".", "M", "3", "U", "8", "?", "t", "o", "k", "e", "n", "=", "a", "b", "c">>}
    \/ proc[p].upstream.content_type \in {<<"a", "p", "p", "l", "i", "c", "a", "t", "i", "o", "n", "/", "x", "-", "m", "p", "e", "g", "U", "R", "L">>, <<"a", "u", "d", "i", "o", "/", "m", "3", "u", "8">>}
\* The url that was fetched, as the base of the rewriting.
BaseOf(p) == url_parse(proc[p].fetched[1])

\* C16: a successful /hls upstream answer that the content type or the url
\* suffix marks as a playlist is returned rewritten against the fetched url
\* with the HLS content type; any other is passed on as it is, with the
\* upstream's content type (application/octet-stream when it sent none).
HlsDispatch ==
    \A p \in Procs :
        HlsDelivered(p) =>
            IF IndicatesPlaylist(p)
            THEN proc[p].res = Response(200, <<"a", "p", "p", "l", "i", "c", "a", "t", "i", "o", "n", "/", "v", "n", "d", ".", "a", "p", "p", "l", "e", ".", "m", "p", "e", "g", "u", "r", "l">>,
                                        rewrite_playlist(proc[p].upstream.body, BaseOf(p)))
            ELSE /\ proc[p].res.status = 200
                 /\ proc[p].res.body = proc[p].upstream.body
                 /\ proc[p].res.content_type =
                        IF proc[p].upstream.content_type = <<>>
                        THEN <<"a", "p", "p", "l", "i", "c", "a", "t", "i", "o", "n", "/", "o", "c", "t", "e", "t", "-", "s", "t", "r", "e", "a", "m">>
                        ELSE proc[p].upstream.content_type
\* A playlist recognised by the url suffix alone was rewritten.
HlsDispatchWitness ==
    \E p \in Procs :
        /\ HlsDelivered(p)
        /\ proc[p].query = Query(<<"h", "t", "t", "p", "s", ":", "/", "/", "c", "d", "n", ".", "e", "x", "a", "m", "p", "l", "e", ".", "c", "o", "m", "/", "l", "i", "v", "e", "/", "i", "n", "d", "e", "x", ".", "m", "3", "u", "8">>)
        /\ proc[p].upstream.content_type = <<"v", "i", "d", "e", "o", "/", "m", "p", "2", "t">>
        /\ proc[p].upstream.body \in Playlists \ {<<>>}
        /\ proc[p].res.content_type = <<"a", "p", "p", "l", "i", "c", "a", "t", "i", "o", "n", "/", "v", "n", "d", ".", "a", "p", "p", "l", "e", ".", "m", "p", "e", "g", "u", "r", "l">>
        /\ proc[p].res.body # proc[p].upstream.body

\* An /hls request that was answered with a rewritten playlist.
Rewritten(p) ==
    /\ HlsDelivered(p)
    /\ proc[p].res.status = 200
    /\ proc[p].res.content_type = <<"a", "p", "p", "l", "i", "c", "a", "t", "i", "o", "n", "/", "v", "n", "d", ".", "a", "p", "p", "l", "e", ".", "m", "p", "e", "g", "u", "r", "l">>
\* The lines of the playlist the upstream sent and of the playlist returned.
InLines(p) == lines(proc[p].upstream.body)
OutLines(p) == lines(proc[p].res.body)

\* C17: the rewritten playlist has exactly as many lines as the playlist that
\* came in, and its line i is the rewriting of input line i alone.
LineCountPreserved ==
    \A p \in Procs :
        Rewritten(p) =>
            /\ Len(OutLines(p)) = Len(InLines(p))
            /\ \A i \in 1..Len(InLines(p)) :
                  OutLines(p)[i] = rewrite_line(InLines(p)[i], BaseOf(p))

\* A tag line with a URI="X" attribute whose X resolves against the base.
HasUri(line, base) ==
    /\ starts_with(line, <<"#">>)
    /\ find(line, <<"U", "R", "I", "=", "\"">>) # 0
    /\ find(SubSeq(line, find(line, <<"U", "R", "I", "=", "\"">>) + 5, Len(line)), <<"\"">>) # 0
    /\ url_join(base, SubSeq(line, find(line, <<"U", "R", "I", "=", "\"">>) + 5,
                find(line, <<"U", "R", "I", "=", "\"">>) + 3
                    + find(SubSeq(line, find(line, <<"U", "R", "I", "=", "\"">>) + 5, Len(line)), <<"\"">>))).ok
\* The line with the value of its URI attribute replaced by v.
WithUri(line, v) ==
    LET a == find(line, <<"U", "R", "I", "=", "\"">>) + 4
        b == a + find(SubSeq(line, a + 1, Len(line)), <<"\"">>)
    IN SubSeq(line, 1, a) \o v \o SubSeq(line, b, Len(line))
\* The value of the line's URI attribute.
UriOf(line) ==
    LET a == find(line, <<"U", "R", "I", "=", "\"">>) + 4
        b == a + find(SubSeq(line, a + 1, Len(line)), <<"\"">>)
    IN SubSeq(line, a + 1, b - 1)

\* C18: in the rewritten playlist a tag line with a URI="X" attribute has X
\* replaced by "/hls?url=" and the percent-encoding of X resolved against the
\* base, and is otherwise unchanged; with base
\* https://cdn.example.com/live/index.m3u8 the key line of the example becomes
\* #EXT-X-KEY:METHOD=AES-128,URI="/hls?url=https%3A%2F%2Fcdn.example.com%2Flive%2Fkey.bin".
TagLineRewriting ==
    \A p \in Procs :
        Rewritten(p) =>
            \A i \in 1..Len(InLines(p)) :
                /\ HasUri(InLines(p)[i], BaseOf(p))
                      => OutLines(p)[i] =
                            WithUri(InLines(p)[i],
                                    <<"/", "h", "l", "s", "?", "u", "r", "l", "=">> \o encode(url_string(
                                        url_join(BaseOf(p), UriOf(InLines(p)[i])))))
                /\ (/\ InLines(p)[i] = <<"#", "E", "X", "T", "-", "X", "-", "K", "E", "Y", ":", "M", "E", "T", "H", "O", "D", "=", "A", "E", "S", "-", "1", "2", "8", ",", "U", "R", "I", "=", "\"", "k", "e", "y", ".", "b", "i", "n", "\"">>
                    /\ proc[p].fetched[1] = <<"h", "t", "t", "p", "s", ":", "/", "/", "c", "d", "n", ".", "e", "x", "a", "m", "p", "l", "e", ".", "c", "o", "m", "/", "l", "i", "v", "e", "/", "i", "n", "d", "e", "x", ".", "m", "3", "u", "8">>)
                      => OutLines(p)[i] = <<"#", "E", "X", "T", "-", "X", "-", "K", "E", "Y", ":", "M", "E", "T", "H", "O", "D", "=", "A", "E", "S", "-", "1", "2", "8", ",", "U", "R", "I", "=", "\"", "/", "h", "l", "s", "?", "u", "r", "l", "=", "h", "t", "t", "p", "s", "%", "3", "A", "%", "2", "F", "%", "2", "F", "c", "d", "n", ".", "e", "x", "a", "m", "p", "l", "e", ".", "c", "o", "m", "%", "2", "F", "l", "i", "v", "e", "%", "2", "F", "k", "e", "y", ".", "b", "i", "n", "\"">>
\* A rewritten playlist holds a tag line whose URI attribute is followed by another attribute.
TagLineRewritingWitness ==
    \E p \in Procs :
        /\ Rewritten(p)
        /\ \E i \in 1..Len(InLines(p)) :
              /\ InLines(p)[i] = <<"#", "E", "X", "T", "-", "X", "-", "M", "A", "P", ":", "U", "R", "I", "=", "\"", "/", "i", "n", "i", "t", "/", "m", "a", "p", ".", "m", "p", "4", "\"", ",", "B", "Y", "T", "E", "R", "A", "N", "G", "E", "=", "\"", "7", "2", "0", "@", "0", "\"">>
              /\ OutLines(p)[i] = <<"#", "E", "X", "T", "-", "X", "-", "M", "A", "P", ":", "U", "R", "I", "=", "\"", "/", "h", "l", "s", "?", "u", "r", "l", "=", "h", "t", "t", "p", "s", "%", "3", "A", "%", "2", "F", "%", "2", "F", "c", "d", "n", ".", "e", "x", "a", "m", "p", "l", "e", ".", "c", "o", "m", "%", "2", "F", "i", "n", "i", "t", "%", "2", "F", "m", "a", "p", ".", "m", "p", "4", "\"", ",", "B", "Y", "T", "E", "R", "A", "N", "G", "E", "=", "\"", "7", "2", "0", "@", "0", "\"">>

\* C19 as stated: every non-blank line that does not start with "#" and
\* resolves against the base is replaced by "/hls?url=" and the
\* percent-encoding of its resolution.
ReferenceLineRewritingAsStated ==
    \A p \in Procs :
        Rewritten(p) =>
            \A i \in 1..Len(InLines(p)) :
                (/\ trim(InLines(p)[i]) # <<>>
                 /\ ~starts_with(InLines(p)[i], <<"#">>)
                 /\ url_join(BaseOf(p), InLines(p)[i]).ok)
                    => OutLines(p)[i] =
                          <<"/", "h", "l", "s", "?", "u", "r", "l", "=">> \o encode(url_string(url_join(BaseOf(p), InLines(p)[i])))

\* C19: every line whose trimmed form is not empty, does not start with "#"
\* and resolves against the base is replaced by exactly "/hls?url=" and the
\* percent-encoding of its resolution; with base
\* https://cdn.example.com/live/index.m3u8 the line segment1.ts becomes
\* /hls?url=https%3A%2F%2Fcdn.example.com%2Flive%2Fsegment1.ts.
ReferenceLineRewriting ==
    \A p \in Procs :
        Rewritten(p) =>
            \A i \in 1..Len(InLines(p)) :
                /\ (/\ trim(InLines(p)[i]) # <<>>
                    /\ ~starts_with(trim(InLines(p)[i]), <<"#">>)
                    /\ url_join(BaseOf(p), InLines(p)[i]).ok)
                      => OutLines(p)[i] =
                            <<"/", "h", "l", "s", "?", "u", "r", "l", "=">> \o encode(url_string(url_join(BaseOf(p), InLines(p)[i])))
                /\ (/\ InLines(p)[i] = <<"s", "e", "g", "m", "e", "n", "t", "1", ".", "t", "s">>
                    /\ proc[p].fetched[1] = <<"h", "t", "t", "p", "s", ":", "/", "/", "c", "d", "n", ".", "e", "x", "a", "m", "p", "l", "e", ".", "c", "o", "m", "/", "l", "i", "v", "e", "/", "i", "n", "d", "e", "x", ".", "m", "3", "u", "8">>)
                      => OutLines(p)[i] = <<"/", "h", "l", "s", "?", "u", "r", "l", "=", "h", "t", "t", "p", "s", "%", "3", "A", "%", "2", "F", "%", "2", "F", "c", "d", "n", ".", "e", "x", "a", "m", "p", "l", "e", ".", "c", "o", "m", "%", "2", "F", "l", "i", "v", "e", "%", "2", "F", "s", "e", "g", "m", "e", "n", "t", "1", ".", "t", "s">>
\* A rewritten playlist holds a reference that stood between blanks, resolved without them.
ReferenceLineRewritingWitness ==
    \E p \in Procs :
        /\ Rewritten(p)
        /\ proc[p].fetched[1] = <<"h", "t", "t", "p", "s", ":", "/", "/", "c", "d", "n", ".", "e", "x", "a", "m", "p", "l", "e", ".", "c", "o", "m", "/", "l", "i", "v", "e", "/", "i", "n", "d", "e", "x", ".", "m", "3", "u", "8">>
        /\ \E i \in 1..Len(InLines(p)) :
              /\ InLines(p)[i] = <<" ", " ", "s", "e", "g", "4", ".", "t", "s", " ", " ">>
              /\ OutLines(p)[i] = <<"/", "h", "l", "s", "?", "u", "r", "l", "=", "h", "t", "t", "p", "s", "%", "3", "A", "%", "2", "F", "%", "2", "F", "c", "d", "n", ".", "e", "x", "a", "m", "p", "l", "e", ".", "c", "o", "m", "%", "2", "F", "l", "i", "v", "e", "%", "2", "F", "s", "e", "g", "4", ".", "t", "s">>

\* C20: every blank line and every tag line without a URI="..." attribute of
\* the playlist that came in stands, character for character, at the same
\* place in the rewritten playlist.
PassThroughLines ==
    \A p \in Procs :
        Rewritten(p) =>
            \A i \in 1..Len(InLines(p)) :
                (\/ trim(InLines(p)[i]) = <<>>
                 \/ (starts_with(InLines(p)[i], <<"#">>) /\ find(InLines(p)[i], <<"U", "R", "I", "=", "\"">>) = 0))
                    => (i <= Len(OutLines(p)) /\ OutLines(p)[i] = InLines(p)[i])

\* A tag line with a URI="X" attribute whose X cannot be resolved against the
\* base, and a reference line that cannot be resolved against it.
HasUnresolvedUri(line, base) ==
    /\ starts_with(trim(line), <<"#">>)
    /\ find(line, <<"U", "R", "I", "=", "\"">>) # 0
    /\ find(SubSeq(line, find(line, <<"U", "R", "I", "=", "\"">>) + 5, Len(line)), <<"\"">>) # 0
    /\ ~url_join(base, UriOf(line)).ok
UnresolvedReference(line, base) ==
    /\ trim(line) # <<>>
    /\ ~starts_with(trim(line), <<"#">>)
    /\ ~url_join(base, trim(line)).ok
PlatformRules ==
    <<[markers |-> {<<"h", "d", "s", "l", "b", ".", "c", "o", "m">>, <<"b", "i", "l", "i", "b", "i", "l", "i", ".", "c", "o", "m">>},
       referer |-> "https://live.bilibili.com/", origin |-> "https://live.bilibili.com"],
      [markers |-> {<<"h", "u", "y", "a", ".", "c", "o", "m">>, <<"h", "y", "-", "c", "d", "n", ".", "c", "o", "m">>, <<"h", "u", "y", "a", "i", "m", "g", ".", "c", "o", "m">>},
       referer |-> "https://www.huya.com/", origin |-> "https://www.huya.com"],
      [markers |-> {<<"d", "o", "u", "y", "i", "n">>, <<"d", "o", "u", "y", "i", "n", "p", "i", "c", ".", "c", "o", "m">>},
       referer |-> "https://www.douyin.com/", origin |-> "https://www.douyin.com"]>>
Matching(u) == {k \in 1..Len(PlatformRules) : \E m \in PlatformRules[k].markers : contains(u, m)}
\* The Referer and Origin headers among a request's headers.
AntiLeech(h) == {x \in h : x[1] \in {"Referer", "Origin"}}
\* An /image or /hls request whose upstream request was built and sent.
PolicyRequest(p) ==
    /\ proc[p].op \in {"image_proxy_handler", "hls_proxy_handler"}
    /\ proc[p].pc = "done"
    /\ proc[p].fetched # <<>>

\* C22: the headers of every upstream request of the image and HLS routes hold
\* User-Agent, Accept and Connection: keep-alive; of the platform rules only
\* the first whose marker the url contains applies and adds the Referer and
\* the Origin of its platform; a url that matches no rule gets neither.
HeaderPolicy ==
    \A p \in Procs :
        PolicyRequest(p) =>
            /\ \E x \in proc[p].headers : x[1] = "User-Agent"
            /\ \E x \in proc[p].headers : x[1] = "Accept"
            /\ <<"Connection", "keep-alive">> \in proc[p].headers
            /\ AntiLeech(proc[p].headers) =
                  IF Matching(proc[p].fetched[1]) = {} THEN {}
                  ELSE LET rule == PlatformRules[Least(Matching(proc[p].fetched[1]))]
                       IN {<<"Referer", rule.referer>>, <<"Origin", rule.origin>>}

\* C23: the Referer and Origin headers the media route sends for a stream url
\* are those apply_common_headers gives for it, and beside them it adds only
\* the Range from byte zero and its own Accept.
MediaRouteSamePolicy ==
    \A p \in Procs :
        (proc[p].op = "flv_proxy_handler" /\ proc[p].pc = "done" /\ proc[p].fetched # <<>>)
            => /\ AntiLeech(proc[p].headers) =
                     AntiLeech(apply_common_headers(Text(proc[p].fetched[1])))
               /\ <<"Range", "bytes=0-">> \in proc[p].headers
               /\ {x[1] : x \in proc[p].headers} \ {"Referer", "Origin"}
                     = {"User-Agent", "Accept", "Connection", "Range"}

\* An invocation waiting on an awaited operation: the shutdown of the server
\* it took (stop(false).await) or the answer of the upstream (send().await).
Suspended(p) == proc[p].pc \in {"await", "flv_send", "image_send", "hls_send"}

RoomIsolation ==
    [][\A p \in Procs :
          (/\ proc'[p].op \in {"start_danmaku_listener", "stop_danmaku_listener"}
           /\ proc'[p].pc # proc[p].pc)
              => /\ \A e \in danmaku_handles \cup danmaku_handles' :
                        e[1] # proc'[p].room => (e \in danmaku_handles /\ e \in danmaku_handles')
                 /\ \A c \in Chans :
                        channels[c].room \notin {"", proc'[p].room} => channels'[c] = channels[c]
                 /\ url' = url
                 /\ server_handle_state' = server_handle_state]_vars
\* A stop for one room has returned, its listener signalled, while the other
\* room's listener is registered, running and not signalled.
RoomIsolationWitness ==
    \E p \in Procs, c, d \in Chans :
        /\ proc[p].op = "stop_danmaku_listener" /\ proc[p].pc = "done"
        /\ channels[c].room = proc[p].room /\ channels[c].fate = "sent_ok"
        /\ channels[c].by = "stop"
        /\ channels[d].room \notin {"", proc[p].room}
        /\ <<channels[d].room, d>> \in danmaku_handles
        /\ channels[d].task = "running" /\ channels[d].fate = "held"

\* The registration of channel c is gone from the registry: removed by a stop
\* or a start, or replaced by the insert of another start.
Displaced(c) == channels[c].room # "" /\ <<channels[c].room, c>> \notin danmaku_handles
Terminated(c) == channels[c].task \in {"cancelled", "exited"}

\* C27: under fair scheduling and with cooperative tasks, every listener whose
\* registration was removed by a stop or superseded by a later start of its
\* room eventually terminates.
CancellationReachesDisplaced == \A c \in Chans : Displaced(c) ~> Terminated(c)

\* C28: a start_proxy invoked while the stream url is empty returns its error
\* in its first step: the handle slot keeps what it holds, no server is told
\* to stop, none is bound, and the primary proxy that was running runs on.
EmptyTargetStartRefused ==
    [][\A p \in Procs :
          (proc[p].pc = "idle" /\ proc'[p].op = "start_proxy" /\ url = "")
              => /\ proc'[p].pc = "done"
                 /\ proc'[p].res = Err("Stream URL is not set in store. Cannot start proxy.")
                 /\ proc'[p].taken = 0 /\ proc'[p].srv = 0
                 /\ server_handle_state' = server_handle_state
                 /\ servers' = servers
                 /\ nsrv' = nsrv]_vars
\* A start has returned the error while the slot holds the handle of a
\* running primary proxy that nobody has told to stop.
EmptyTargetStartRefusedWitness ==
    \E p \in Procs :
        /\ proc[p].op = "start_proxy" /\ proc[p].pc = "done"
        /\ proc[p].res = Err("Stream URL is not set in store. Cannot start proxy.")
        /\ proc[p].found # 0 /\ server_handle_state = proc[p].found
        /\ servers[proc[p].found].state = "running"
        /\ servers[proc[p].found].stop = "none"

\* C29: a step of stop_danmaku_listener(r) leaves no registration for r,
\* whether the signal was delivered or not; the return of a command leaves the
\* registry as it is and a stop that finds no registration returns Ok, so the
\* stop right after one that returned the delivery error succeeds; a task that
\* ends on its own leaves the registry as it is, and a registration leaves the
\* registry only in a step of a start or a stop for its room.
StopRemovesRegardless ==
    [][/\ \A p \in Procs :
             (proc[p].pc = "idle" /\ proc'[p].op = "stop_danmaku_listener")
                 => /\ Lookup(danmaku_handles', proc'[p].room) = {}
                    /\ Lookup(danmaku_handles, proc'[p].room) = {} => proc'[p].res = Ok("unit")
       /\ \A p \in Procs :
             (proc[p].pc = "done" /\ proc'[p].pc = "idle") => danmaku_handles' = danmaku_handles
       /\ \A c \in Chans :
             (channels[c].task = "running" /\ channels'[c].task = "exited")
                 => danmaku_handles' = danmaku_handles
       /\ \A e \in danmaku_handles \ danmaku_handles' :
             \E p \in Procs :
                 /\ proc'[p].op \in {"start_danmaku_listener", "stop_danmaku_listener"}
                 /\ proc'[p].pc # proc[p].pc
                 /\ proc'[p].room = e[1]]_vars
\* A stop has returned the delivery error: the task had ended on its own with
\* its registration still in the registry, and the stop removed it.
StopRemovesRegardlessWitness ==
    \E p \in Procs, c \in Chans :
        /\ proc[p].op = "stop_danmaku_listener" /\ proc[p].pc = "done" /\ IsErr(proc[p].res)
        /\ channels[c].room = proc[p].room
        /\ channels[c].task = "exited" /\ channels[c].fate = "sent_err"
        /\ Lookup(danmaku_handles, proc[p].room) = {}

PrimaryQuiescent ==
    \A p \in Procs : proc[p].op \in {"start_proxy", "stop_proxy"} => proc[p].pc = "done"

====
